---- MODULE Spec2Model ----
(***************************************************************************)
(* Appointment scheduling service of the EMR backend                       *)
(* (backend/appointment_service.py over the appointments table).           *)
(*                                                                         *)
(* Representation                                                          *)
(*   - a time string "HH:MM" is the tuple <<h, m>> of its ':'-separated    *)
(*     integer fields, "HH:MM:SS" is <<h, m, s>>, "9" is <<9>> and a       *)
(*     string with no leading integer is <<>>;                             *)
(*   - the TIME column holds <<h, m, s>>;                                  *)
(*   - a Python dict is a function whose DOMAIN is its key set;            *)
(*   - None / SQL NULL is the reserved string NULL; an optional dict or    *)
(*     row (conflict, data, query result) is a sequence of length <= 1;    *)
(*   - a message is the literal part of the Python message string.         *)
(***************************************************************************)
EXTENDS Integers, Sequences, FiniteSets, TLC

\* ---------------------------------------------------------------- bounds
\* ids the store issues in one behaviour
MaxRows == 2
\* committed mutations in one behaviour (CURRENT_TIMESTAMP values)
MaxClock == 3

\* ------------------------------------------------------ program constants
OpenHour == 8
CloseHour == 21
valid_statuses == {"Confirmed", "Scheduled", "Upcoming", "Cancelled"}
DefaultStatus == "Scheduled"
DefaultMode == "In-Person"
DefaultNotes == ""
NULL == "NULL"
None == <<>>
Some(x) == <<x>>
\* exclude_id = None of check_time_slot_conflict, and "no id" of a call
NoId == 0
\* no store call of the handler raises
NoFault == "none"

MsgHours == "Appointments are only available between 8:00 AM and 9:00 PM"
MsgTimeFormat == "Invalid time format"
MsgBooked == "This time slot is already booked!"
MsgCheckError == "Error checking availability"
MsgCreated == "Appointment created successfully"
MsgCreateFailed == "Failed to create appointment"
MsgCreateError == "Error creating appointment"
MsgNotFound == "Appointment not found"
MsgDeleted == "Appointment deleted successfully"
MsgDeleteFailed == "Failed to delete appointment"
MsgDeleteError == "Error deleting appointment"
MsgUpdated == "Appointment updated successfully"
MsgUpdateFailed == "Failed to update appointment"
MsgUpdateError == "Error updating appointment"
MsgInvalidStatus == "Invalid status. Must be one of: Confirmed, Scheduled, Upcoming, Cancelled"
MsgStatusUpdated == "Appointment status updated"
MsgStatusNotFound == "Appointment not found: id"
MsgStatusError == "Error updating appointment"
MsgRetrieved == "Appointments retrieved successfully"
MsgUnknownAction == "Unknown action"
MsgRequestError == "Error processing request"
MsgNone == ""

\* ------------------------------------------------------------------ state
VARIABLES
    appointments,   \* the rows of table appointments
    next_id,        \* the next id the store generates
    clock,          \* the store's CURRENT_TIMESTAMP, one tick per mutation
    deleted,        \* ids a delete_appointment call has removed
    call,           \* the call made last (see Call, Probe)
    res,            \* the dict that call returned
    workers,        \* per request thread: where its create_appointment stands
    gw              \* the DatabaseConnection and the execute_* call it runs

vars == <<appointments, next_id, clock, deleted, call, res, workers, gw>>

\* ---------------------------------------------------------- conversions
\* psycopg2/PostgreSQL cast of a time string to the TIME column
ToTime(time_str) ==
    IF Len(time_str) = 2 THEN <<time_str[1], time_str[2], 0>> ELSE time_str

\* str(row['time'])[:5]: "HH:MM:SS" cut to "HH:MM"
TimeHHMM(t) == <<t[1], t[2]>>

_format_appointment(row) ==
    [id |-> row.id,
     name |-> row.patient_name,
     doctorName |-> row.doctor_name,
     date |-> row.date,
     time |-> TimeHHMM(row.time),
     duration |-> row.duration,
     status |-> row.status,
     mode |-> row.mode,
     notes |-> IF row.notes = NULL THEN "" ELSE row.notes,
     createdAt |-> row.created_at]

\* ------------------------------------------------------------ validator
\* mutant: closing hour included
validate_appointment_time_Closing(time_str) ==
    IF Len(time_str) < 1
    THEN [valid |-> FALSE, message |-> MsgTimeFormat]
    ELSE IF time_str[1] < OpenHour \/ time_str[1] > CloseHour
         THEN [valid |-> FALSE, message |-> MsgHours]
         ELSE [valid |-> TRUE, message |-> MsgNone]

\* mutant: "and" for "or"
validate_appointment_time_And(time_str) ==
    IF Len(time_str) < 1
    THEN [valid |-> FALSE, message |-> MsgTimeFormat]
    ELSE IF time_str[1] < OpenHour /\ time_str[1] >= CloseHour
         THEN [valid |-> FALSE, message |-> MsgHours]
         ELSE [valid |-> TRUE, message |-> MsgNone]

validate_appointment_time(time_str) ==
    IF Len(time_str) < 1
    THEN [valid |-> FALSE, message |-> MsgTimeFormat]
    ELSE IF time_str[1] < OpenHour \/ time_str[1] >= CloseHour
         THEN [valid |-> FALSE, message |-> MsgHours]
         ELSE [valid |-> TRUE, message |-> MsgNone]

\* start_hour * 60 + start_min of a parsed "HH:MM..." string
StartMinutes(parts) == parts[1] * 60 + parts[2]

\* SELECT id, patient_name, time, duration FROM appointments
\*  WHERE doctor_name = %s AND date = %s AND status != 'Cancelled' [AND id != %s]
\* mutant: Cancelled rows are candidates too
SelectActive_AnyStatus(rows, doctor_name, date, exclude_id) ==
    {r \in rows : /\ r.doctor_name = doctor_name
                  /\ r.date = date
                  /\ (exclude_id # NoId => r.id # exclude_id)}

\* mutant: exclude_id ignored
SelectActive_NoExclude(rows, doctor_name, date, exclude_id) ==
    {r \in rows : /\ r.doctor_name = doctor_name
                  /\ r.date = date
                  /\ r.status # "Cancelled"}

SelectActive(rows, doctor_name, date, exclude_id) ==
    {r \in rows : /\ r.doctor_name = doctor_name
                  /\ r.date = date
                  /\ r.status # "Cancelled"
                  /\ (exclude_id # NoId => r.id # exclude_id)}

\* the overlap test of the scan loop
\* mutant: closed intervals
SlotOverlap_Inclusive(start_minutes, end_minutes, apt_start_minutes, apt_end_minutes) ==
    start_minutes <= apt_end_minutes /\ end_minutes >= apt_start_minutes

\* mutant: only a start inside the existing slot counts
SlotOverlap_StartInside(start_minutes, end_minutes, apt_start_minutes, apt_end_minutes) ==
    start_minutes >= apt_start_minutes /\ start_minutes < apt_end_minutes

SlotOverlap(start_minutes, end_minutes, apt_start_minutes, apt_end_minutes) ==
    start_minutes < apt_end_minutes /\ end_minutes > apt_start_minutes

\* the conflicting_appointment dict built for row apt
ConflictInfo(apt) ==
    LET apt_time == TimeHHMM(apt.time)
        apt_end_minutes == StartMinutes(apt_time) + apt.duration
    IN [patient |-> apt.patient_name,
        time |-> apt_time,
        endTime |-> <<apt_end_minutes \div 60, apt_end_minutes % 60>>,
        duration |-> apt.duration]

\* mutant: a query that raises counts as a free slot
check_time_slot_conflict_FailOpen(rows, doctor_name, date, time, duration, exclude_id, read_fails) ==
    IF Len(time) < 2 \/ read_fails
    THEN {[available |-> TRUE, message |-> MsgNone, conflicting_appointment |-> None]}
    ELSE LET start_minutes == StartMinutes(time)
             end_minutes == start_minutes + duration
             existing == SelectActive(rows, doctor_name, date, exclude_id)
             hits == {apt \in existing :
                        LET apt_start_minutes == StartMinutes(TimeHHMM(apt.time))
                        IN SlotOverlap(start_minutes, end_minutes,
                                       apt_start_minutes, apt_start_minutes + apt.duration)}
         IN IF hits = {}
            THEN {[available |-> TRUE, message |-> MsgNone, conflicting_appointment |-> None]}
            ELSE {[available |-> FALSE, message |-> MsgBooked,
                   conflicting_appointment |-> Some(ConflictInfo(apt))] : apt \in hits}

\* The results check_time_slot_conflict can return.  The query has no
\* ORDER BY, so the scan meets the rows in any order and the first
\* overlapping row it meets can be any overlapping row.  read_fails: the
\* query raises.  A time string without a minute field raises IndexError.
check_time_slot_conflict(rows, doctor_name, date, time, duration, exclude_id, read_fails) ==
    IF Len(time) < 2 \/ read_fails
    THEN {[available |-> FALSE, message |-> MsgCheckError, conflicting_appointment |-> None]}
    ELSE LET start_minutes == StartMinutes(time)
             end_minutes == start_minutes + duration
             existing == SelectActive(rows, doctor_name, date, exclude_id)
             hits == {apt \in existing :
                        LET apt_start_minutes == StartMinutes(TimeHHMM(apt.time))
                        IN SlotOverlap(start_minutes, end_minutes,
                                       apt_start_minutes, apt_start_minutes + apt.duration)}
         IN IF hits = {}
            THEN {[available |-> TRUE, message |-> MsgNone, conflicting_appointment |-> None]}
            ELSE {[available |-> FALSE, message |-> MsgBooked,
                   conflicting_appointment |-> Some(ConflictInfo(apt))] : apt \in hits}


\* --------------------------------------------------------- result dicts
\* dict.get(key, default)
Get(d, key, default) == IF key \in DOMAIN d THEN d[key] ELSE default

Result(success, message, conflict, data, id, status) ==
    [success |-> success, message |-> message, conflict |-> conflict,
     data |-> data, id |-> id, status |-> status]

\* what a use case that returns a bare value hands back / that it raised
Returned(value) == [returned |-> value]
Raised == [raised |-> TRUE]

Failure(message) == Result(FALSE, message, None, None, NoId, NULL)
Success(message, row) == Result(TRUE, message, None, Some(_format_appointment(row)), NoId, NULL)

\* ------------------------------------------------------------ statements
\* mutant: supplied optional fields ignored
InsertedRow_DefaultsOnly(data, id, now) ==
    [id |-> id,
     patient_name |-> data.name,
     doctor_name |-> data.doctorName,
     date |-> data.date,
     time |-> ToTime(data.time),
     duration |-> data.duration,
     status |-> DefaultStatus,
     mode |-> DefaultMode,
     notes |-> DefaultNotes,
     created_at |-> now,
     updated_at |-> now]

\* INSERT INTO appointments (...) VALUES (...): the store generates id,
\* created_at and updated_at
InsertedRow(data, id, now) ==
    [id |-> id,
     patient_name |-> data.name,
     doctor_name |-> data.doctorName,
     date |-> data.date,
     time |-> ToTime(data.time),
     duration |-> data.duration,
     status |-> Get(data, "status", DefaultStatus),
     mode |-> Get(data, "mode", DefaultMode),
     notes |-> Get(data, "notes", DefaultNotes),
     created_at |-> now,
     updated_at |-> now]

\* SELECT * FROM appointments WHERE id = %s
SelectById(rows, appointment_id) == {r \in rows : r.id = appointment_id}

\* mutant: soft delete
DeleteById_Soft(rows, appointment_id) ==
    {IF r.id = appointment_id THEN [r EXCEPT !.status = "Cancelled"] ELSE r : r \in rows}

\* DELETE FROM appointments WHERE id = %s
DeleteById(rows, appointment_id) == {r \in rows : r.id # appointment_id}

\* mutant: a Cancelled appointment stays Cancelled
UpdateStatusById_CancelledIsFinal(rows, appointment_id, new_status, now) ==
    {IF r.id = appointment_id
     THEN [r EXCEPT !.status = IF r.status = "Cancelled" THEN "Cancelled" ELSE new_status,
                    !.updated_at = now]
     ELSE r : r \in rows}

\* UPDATE appointments SET status = %s, updated_at = CURRENT_TIMESTAMP WHERE id = %s
UpdateStatusById(rows, appointment_id, new_status, now) ==
    {IF r.id = appointment_id
     THEN [r EXCEPT !.status = new_status, !.updated_at = now]
     ELSE r : r \in rows}

\* SELECT * FROM appointments WHERE 1=1 [AND date = %s] [AND status = %s]:
\* the rows get_appointments formats (a filter counts when present and truthy)
get_appointments_rows(rows, filters) ==
    {r \in rows :
        /\ ("date" \in DOMAIN filters /\ filters.date # "") => r.date = filters.date
        /\ ("status" \in DOMAIN filters /\ filters.status # "") => r.status = filters.status}

\* the order of the DATE column over the dates of the requests
DateOrdinal(d) == IF d = "2025-12-15" THEN 15 ELSE IF d = "2025-12-16" THEN 16 ELSE 0

\* mutant: ORDER BY time ASC alone
SortKey_TimeOnly(r) == r.time[1] * 3600 + r.time[2] * 60 + r.time[3]

\* ORDER BY date ASC, time ASC: a year of days, a day of seconds
SortKey(r) == (DateOrdinal(r.date) * 24 + r.time[1]) * 3600 + r.time[2] * 60 + r.time[3]

\* the result lists the store may return for rows ORDER BY date ASC, time ASC:
\* rows of equal date and time come in an order the store chooses
OrderedByDateTime(rows) ==
    {q \in [1..Cardinality(rows) -> rows] :
        /\ \A i, j \in 1..Cardinality(rows) : i < j => q[i] # q[j]
        /\ \A i, j \in 1..Cardinality(rows) : i < j => SortKey(q[i]) <= SortKey(q[j])}

\* SELECT * FROM appointments WHERE date BETWEEN %s AND %s: a NULL bound
\* compares to NULL and matches no row
get_appointments_by_date_range_rows(rows, start_date, end_date) ==
    {r \in rows :
        /\ start_date # NULL
        /\ end_date # NULL
        /\ DateOrdinal(start_date) <= DateOrdinal(r.date)
        /\ DateOrdinal(r.date) <= DateOrdinal(end_date)}

\* the dictionary get_appointments_by_date_range builds for a row: the time
\* is row['time'].isoformat(), seconds included, and notes are passed as stored
_range_appointment(row) ==
    [id |-> row.id,
     patientName |-> row.patient_name,
     doctorName |-> row.doctor_name,
     date |-> row.date,
     time |-> row.time,
     duration |-> row.duration,
     status |-> row.status,
     mode |-> row.mode,
     notes |-> row.notes,
     createdAt |-> row.created_at]

\* mutant: no ORDER BY created_at DESC
SelectCreated_AnyOrder(rows, data) ==
    {r \in rows : /\ r.patient_name = data.name
                  /\ r.date = data.date
                  /\ r.time = ToTime(data.time)}

\* SELECT * FROM appointments WHERE patient_name = %s AND date = %s AND time = %s
\*  ORDER BY created_at DESC LIMIT 1
SelectCreated(rows, data) ==
    LET match == {r \in rows : /\ r.patient_name = data.name
                               /\ r.date = data.date
                               /\ r.time = ToTime(data.time)}
    IN {r \in match : \A o \in match : o.created_at <= r.created_at}

\* mutant: a column that is not supplied is set to its default
UpdatedRow_Defaults(row, data, now) ==
    [row EXCEPT
       !.patient_name = Get(data, "name", @),
       !.doctor_name = Get(data, "doctorName", @),
       !.date = Get(data, "date", @),
       !.time = IF "time" \in DOMAIN data THEN ToTime(data.time) ELSE @,
       !.duration = Get(data, "duration", @),
       !.status = Get(data, "status", DefaultStatus),
       !.mode = Get(data, "mode", DefaultMode),
       !.notes = Get(data, "notes", DefaultNotes),
       !.updated_at = now]

\* mutant: a patch without a column of the table changes nothing
UpdatedRow_SkipsEmpty(row, data, now) ==
    IF DOMAIN data \cap {"name", "doctorName", "date", "time", "duration",
                         "status", "mode", "notes"} = {}
    THEN row
    ELSE [row EXCEPT
            !.patient_name = Get(data, "name", @),
            !.doctor_name = Get(data, "doctorName", @),
            !.date = Get(data, "date", @),
            !.time = IF "time" \in DOMAIN data THEN ToTime(data.time) ELSE @,
            !.duration = Get(data, "duration", @),
            !.status = Get(data, "status", @),
            !.mode = Get(data, "mode", @),
            !.notes = Get(data, "notes", @),
            !.updated_at = now]

\* UPDATE appointments SET <supplied columns>, updated_at = CURRENT_TIMESTAMP
UpdatedRow(row, data, now) ==
    [row EXCEPT
       !.patient_name = Get(data, "name", @),
       !.doctor_name = Get(data, "doctorName", @),
       !.date = Get(data, "date", @),
       !.time = IF "time" \in DOMAIN data THEN ToTime(data.time) ELSE @,
       !.duration = Get(data, "duration", @),
       !.status = Get(data, "status", @),
       !.mode = Get(data, "mode", @),
       !.notes = Get(data, "notes", @),
       !.updated_at = now]

EmptyDict == [k \in {} |-> k]

\* what call records of a handler call: its name, the id it was given and the
\* dict it was given, and the store call that raised during it; of a
\* validator call: its name and arguments
Call(op, appointment_id, data, fail) ==
    [op |-> op, appointment_id |-> appointment_id, data |-> data, fail |-> fail]
Probe(op, args) == [op |-> op, args |-> args]

\* state left alone by a call that executes no mutation
NoMutation == UNCHANGED <<appointments, next_id, clock, deleted>>
\* a handler run from start to end by one thread, the gateway left aside
OneThread == UNCHANGED <<workers, gw>>

\* -------------------------------------------------------------- handlers
\* fail: the store call of the handler that raises ("none": no call raises)
create_appointment(data, fail) ==
    LET time_validation == validate_appointment_time(data.time) IN
    /\ call' = Call("create_appointment", NoId, data, fail)
    /\ OneThread
    /\ IF "time" \notin DOMAIN data
       THEN \* data['time'] raises KeyError
            res' = Failure(MsgCreateError) /\ NoMutation
       ELSE IF ~time_validation.valid
       THEN res' = Failure(time_validation.message) /\ NoMutation
       ELSE IF ~({"doctorName", "date", "duration"} \subseteq DOMAIN data)
       THEN \* KeyError in the arguments of the conflict check
            res' = Failure(MsgCreateError) /\ NoMutation
       ELSE \E conflict_check \in check_time_slot_conflict(appointments,
                    data.doctorName, data.date, data.time, data.duration, NoId, fail = "check") :
            IF ~conflict_check.available
            THEN /\ res' = [Failure(conflict_check.message) EXCEPT
                              !.conflict = conflict_check.conflicting_appointment]
                 /\ NoMutation
            ELSE IF fail = "insert" \/ "name" \notin DOMAIN data
            THEN \* the INSERT raises, or data['name'] raises KeyError before it
                 res' = Failure(MsgCreateError) /\ NoMutation
            ELSE /\ next_id <= MaxRows
                 /\ clock < MaxClock
                 /\ appointments' = appointments \cup {InsertedRow(data, next_id, clock + 1)}
                 /\ next_id' = next_id + 1
                 /\ clock' = clock + 1
                 /\ UNCHANGED deleted
                 /\ IF fail = "reread"
                    THEN res' = Failure(MsgCreateError)
                    ELSE \E created \in SelectCreated(appointments', data) :
                            res' = Success(MsgCreated, created)

\* mutant: the DELETE is issued before the row is looked up
delete_appointment_DeleteFirst(appointment_id, fail) ==
    LET result == SelectById(appointments, appointment_id) IN
    /\ call' = Call("delete_appointment", appointment_id, EmptyDict, fail)
    /\ OneThread
    /\ IF fail \in {"select", "delete"}
       THEN res' = Failure(MsgDeleteError) /\ NoMutation
       ELSE IF result = {}
       THEN res' = Failure(MsgNotFound) /\ NoMutation
       ELSE /\ clock < MaxClock
            /\ appointments' = DeleteById(appointments, appointment_id)
            /\ clock' = clock + 1
            /\ deleted' = deleted \cup {appointment_id}
            /\ UNCHANGED next_id
            /\ \E row \in result : res' = Success(MsgDeleted, row)

delete_appointment(appointment_id, fail) ==
    LET result == SelectById(appointments, appointment_id) IN
    /\ call' = Call("delete_appointment", appointment_id, EmptyDict, fail)
    /\ OneThread
    /\ IF fail = "select"
       THEN res' = Failure(MsgDeleteError) /\ NoMutation
       ELSE IF result = {}
       THEN res' = Failure(MsgNotFound) /\ NoMutation
       ELSE IF fail = "delete"
       THEN res' = Failure(MsgDeleteError) /\ NoMutation
       ELSE /\ clock < MaxClock
            /\ appointments' = DeleteById(appointments, appointment_id)
            /\ clock' = clock + 1
            /\ deleted' = deleted \cup {appointment_id}
            /\ UNCHANGED next_id
            /\ \E row \in result : res' = Success(MsgDeleted, row)

\* mutant: no except block, an exception of the UPDATE leaves the handler
update_appointment_status_result_Propagates(appointment_id, new_status, fail) ==
    LET hit == SelectById(appointments, appointment_id) IN
    IF new_status \notin valid_statuses
    THEN res' = Result(FALSE, MsgInvalidStatus, None, None, appointment_id, NULL) /\ NoMutation
    ELSE IF fail = "update"
    THEN res' = Raised /\ NoMutation
    ELSE IF hit = {}
    THEN res' = Result(FALSE, MsgStatusNotFound, None, None, appointment_id, NULL) /\ NoMutation
    ELSE /\ clock < MaxClock
         /\ appointments' = UpdateStatusById(appointments, appointment_id,
                                             new_status, clock + 1)
         /\ clock' = clock + 1
         /\ UNCHANGED <<next_id, deleted>>
         /\ res' = Result(TRUE, MsgStatusUpdated, None, None, appointment_id, new_status)

\* the result and the store effect of update_appointment_status
update_appointment_status_result(appointment_id, new_status, fail) ==
    LET hit == SelectById(appointments, appointment_id) IN
    IF new_status \notin valid_statuses
    THEN res' = Result(FALSE, MsgInvalidStatus, None, None, appointment_id, NULL) /\ NoMutation
    ELSE IF fail = "update"
    THEN res' = Result(FALSE, MsgStatusError, None, None, appointment_id, NULL) /\ NoMutation
    ELSE IF hit = {}
    THEN res' = Result(FALSE, MsgStatusNotFound, None, None, appointment_id, NULL) /\ NoMutation
    ELSE /\ clock < MaxClock
         /\ appointments' = UpdateStatusById(appointments, appointment_id,
                                             new_status, clock + 1)
         /\ clock' = clock + 1
         /\ UNCHANGED <<next_id, deleted>>
         /\ res' = Result(TRUE, MsgStatusUpdated, None, None, appointment_id, new_status)

\* mutant: the UPDATE runs before the status is validated
update_appointment_status_StoreFirst(appointment_id, new_status, fail) ==
    LET hit == SelectById(appointments, appointment_id) IN
    /\ call' = Call("update_appointment_status", appointment_id, [status |-> new_status], fail)
    /\ OneThread
    /\ IF fail = "update"
       THEN res' = Result(FALSE, MsgStatusError, None, None, appointment_id, NULL) /\ NoMutation
       ELSE IF hit = {}
       THEN res' = Result(FALSE, IF new_status \in valid_statuses
                                 THEN MsgStatusNotFound ELSE MsgInvalidStatus,
                          None, None, appointment_id, NULL) /\ NoMutation
       ELSE /\ clock < MaxClock
            /\ appointments' = UpdateStatusById(appointments, appointment_id,
                                                new_status, clock + 1)
            /\ clock' = clock + 1
            /\ UNCHANGED <<next_id, deleted>>
            /\ res' = IF new_status \in valid_statuses
                      THEN Result(TRUE, MsgStatusUpdated, None, None, appointment_id, new_status)
                      ELSE Result(FALSE, MsgInvalidStatus, None, None, appointment_id, NULL)

update_appointment_status(appointment_id, new_status, fail) ==
    /\ call' = Call("update_appointment_status", appointment_id, [status |-> new_status], fail)
    /\ OneThread
    /\ update_appointment_status_result(appointment_id, new_status, fail)

\* mutant: the conflict check uses the stored doctor, not the supplied one
update_appointment_StoredDoctor(appointment_id, data, fail) ==
    LET result == SelectById(appointments, appointment_id) IN
    /\ call' = Call("update_appointment", appointment_id, data, fail)
    /\ OneThread
    /\ IF fail = "select"
       THEN res' = Failure(MsgUpdateError) /\ NoMutation
       ELSE IF result = {}
       THEN res' = Failure(MsgNotFound) /\ NoMutation
       ELSE \E existing \in result :
            LET time_validation == IF "time" \in DOMAIN data
                                   THEN validate_appointment_time(data.time)
                                   ELSE [valid |-> TRUE, message |-> MsgNone]
                checked == DOMAIN data \cap {"time", "date", "doctorName", "duration"} # {}
                check_doctor == existing.doctor_name
                check_date == Get(data, "date", existing.date)
                check_time == Get(data, "time", TimeHHMM(existing.time))
                check_duration == Get(data, "duration", existing.duration)
                checks == IF checked
                          THEN check_time_slot_conflict(appointments, check_doctor, check_date,
                                   check_time, check_duration, appointment_id, fail = "check")
                          ELSE {[available |-> TRUE, message |-> MsgNone,
                                 conflicting_appointment |-> None]}
            IN IF ~time_validation.valid
               THEN res' = Failure(time_validation.message) /\ NoMutation
               ELSE \E conflict_check \in checks :
                    IF ~conflict_check.available
                    THEN /\ res' = [Failure(conflict_check.message) EXCEPT
                                      !.conflict = conflict_check.conflicting_appointment]
                         /\ NoMutation
                    ELSE IF fail = "update"
                    THEN res' = Failure(MsgUpdateError) /\ NoMutation
                    ELSE /\ clock < MaxClock
                         /\ appointments' = (appointments \ {existing}) \cup
                                               {UpdatedRow(existing, data, clock + 1)}
                         /\ clock' = clock + 1
                         /\ UNCHANGED <<next_id, deleted>>
                         /\ IF fail = "reread"
                            THEN res' = Failure(MsgUpdateError)
                            ELSE \E updated \in SelectById(appointments', appointment_id) :
                                    res' = Success(MsgUpdated, updated)

update_appointment(appointment_id, data, fail) ==
    LET result == SelectById(appointments, appointment_id) IN
    /\ call' = Call("update_appointment", appointment_id, data, fail)
    /\ OneThread
    /\ IF fail = "select"
       THEN res' = Failure(MsgUpdateError) /\ NoMutation
       ELSE IF result = {}
       THEN res' = Failure(MsgNotFound) /\ NoMutation
       ELSE \E existing \in result :
            LET time_validation == IF "time" \in DOMAIN data
                                   THEN validate_appointment_time(data.time)
                                   ELSE [valid |-> TRUE, message |-> MsgNone]
                checked == DOMAIN data \cap {"time", "date", "doctorName", "duration"} # {}
                check_doctor == Get(data, "doctorName", existing.doctor_name)
                check_date == Get(data, "date", existing.date)
                check_time == Get(data, "time", TimeHHMM(existing.time))
                check_duration == Get(data, "duration", existing.duration)
                checks == IF checked
                          THEN check_time_slot_conflict(appointments, check_doctor, check_date,
                                   check_time, check_duration, appointment_id, fail = "check")
                          ELSE {[available |-> TRUE, message |-> MsgNone,
                                 conflicting_appointment |-> None]}
            IN IF ~time_validation.valid
               THEN res' = Failure(time_validation.message) /\ NoMutation
               ELSE \E conflict_check \in checks :
                    IF ~conflict_check.available
                    THEN /\ res' = [Failure(conflict_check.message) EXCEPT
                                      !.conflict = conflict_check.conflicting_appointment]
                         /\ NoMutation
                    ELSE IF fail = "update"
                    THEN res' = Failure(MsgUpdateError) /\ NoMutation
                    ELSE /\ clock < MaxClock
                         /\ appointments' = (appointments \ {existing}) \cup
                                               {UpdatedRow(existing, data, clock + 1)}
                         /\ clock' = clock + 1
                         /\ UNCHANGED <<next_id, deleted>>
                         /\ IF fail = "reread"
                            THEN res' = Failure(MsgUpdateError)
                            ELSE \E updated \in SelectById(appointments', appointment_id) :
                                    res' = Success(MsgUpdated, updated)

\* the validators are static methods, callable on their own
validate_appointment_time_call(time_str) ==
    LET v == validate_appointment_time(time_str) IN
    /\ call' = Probe("validate_appointment_time", <<time_str>>)
    /\ OneThread
    /\ res' = Result(v.valid, v.message, None, None, NoId, NULL)
    /\ NoMutation

check_time_slot_conflict_call(doctor_name, date, time, duration, exclude_id) ==
    /\ call' = Probe("check_time_slot_conflict", <<doctor_name, date, time, duration, exclude_id>>)
    /\ OneThread
    /\ \E c \in check_time_slot_conflict(appointments, doctor_name, date, time, duration,
                                         exclude_id, FALSE) :
          res' = Result(c.available, c.message, c.conflicting_appointment, None, NoId, NULL)
    /\ NoMutation

\* ---- the list use case, called on its own
\* get_appointments(filters): the formatted rows in the order of the store;
\* an exception of the SELECT is logged and raised again
get_appointments(filters, fail) ==
    /\ call' = Call("get_appointments", NoId, filters, fail)
    /\ OneThread
    /\ NoMutation
    /\ IF fail = "select"
       THEN res' = Raised
       ELSE \E q \in OrderedByDateTime(get_appointments_rows(appointments, filters)) :
               res' = Returned([i \in DOMAIN q |-> _format_appointment(q[i])])

\* ---- the façade: one entry point, three actions
\* the envelope of the two list actions
Listed(appointments_list) ==
    [data |-> appointments_list, success |-> TRUE, message |-> MsgRetrieved]

\* the envelope of a refused or failed request
Refused(message) == [success |-> FALSE, message |-> message]

\* mutant: an action that is not known lists the appointments
handle_appointment_request_ListByDefault(action, payload, fail) ==
    /\ call' = Call("handle_appointment_request", NoId,
                    [action |-> action, payload |-> payload], fail)
    /\ OneThread
    /\ IF action = "updateAppointmentStatus"
       THEN update_appointment_status_result(Get(payload, "appointmentId", NoId),
                                             Get(payload, "status", NULL), fail)
       ELSE IF action = "getAppointmentsByDateRange"
       THEN /\ NoMutation
            /\ IF fail = "select"
               THEN res' = Refused(MsgRequestError)
               ELSE \E q \in OrderedByDateTime(get_appointments_by_date_range_rows(
                               appointments, Get(payload, "startDate", NULL),
                               Get(payload, "endDate", NULL))) :
                       res' = Listed([i \in DOMAIN q |-> _range_appointment(q[i])])
       ELSE /\ NoMutation
            /\ IF fail = "select"
               THEN res' = Refused(MsgRequestError)
               ELSE \E q \in OrderedByDateTime(get_appointments_rows(
                               appointments, Get(payload, "filters", EmptyDict))) :
                       res' = Listed([i \in DOMAIN q |-> _format_appointment(q[i])])

\* handle_appointment_request(action, payload); fail names the statement of
\* the store that raises, and a missing appointmentId (None) is the id of no row
handle_appointment_request(action, payload, fail) ==
    /\ call' = Call("handle_appointment_request", NoId,
                    [action |-> action, payload |-> payload], fail)
    /\ OneThread
    /\ IF action = "getAppointments"
       THEN /\ NoMutation
            /\ IF fail = "select"
               THEN res' = Refused(MsgRequestError)
               ELSE \E q \in OrderedByDateTime(get_appointments_rows(
                               appointments, Get(payload, "filters", EmptyDict))) :
                       res' = Listed([i \in DOMAIN q |-> _format_appointment(q[i])])
       ELSE IF action = "updateAppointmentStatus"
       THEN update_appointment_status_result(Get(payload, "appointmentId", NoId),
                                             Get(payload, "status", NULL), fail)
       ELSE IF action = "getAppointmentsByDateRange"
       THEN /\ NoMutation
            /\ IF fail = "select"
               THEN res' = Refused(MsgRequestError)
               ELSE \E q \in OrderedByDateTime(get_appointments_by_date_range_rows(
                               appointments, Get(payload, "startDate", NULL),
                               Get(payload, "endDate", NULL))) :
                       res' = Listed([i \in DOMAIN q |-> _range_appointment(q[i])])
       ELSE res' = Refused(MsgUnknownAction) /\ NoMutation

\* ---------------------------------------------------- concurrent creates
\* Request threads.  A thread runs create_appointment as two store calls, the
\* conflict query (execute_query) and the INSERT (execute_mutation, which
\* commits); the calls of another thread may fall between the two.
Workers == {"t1", "t2"}
Idle == [pc |-> "idle", data |-> EmptyDict]

\* create_appointment up to the conflict check
create_appointment_check(w, data) ==
    LET time_validation == validate_appointment_time(data.time) IN
    /\ workers[w].pc = "idle"
    /\ NoMutation
    /\ UNCHANGED gw
    /\ IF ~time_validation.valid
       THEN /\ call' = Call("create_appointment", NoId, data, NoFault)
            /\ res' = Failure(time_validation.message)
            /\ UNCHANGED workers
       ELSE \E conflict_check \in check_time_slot_conflict(appointments,
                    data.doctorName, data.date, data.time, data.duration, NoId, FALSE) :
            IF ~conflict_check.available
            THEN /\ call' = Call("create_appointment", NoId, data, NoFault)
                 /\ res' = [Failure(conflict_check.message) EXCEPT
                              !.conflict = conflict_check.conflicting_appointment]
                 /\ UNCHANGED workers
            ELSE /\ workers' = [workers EXCEPT ![w] = [pc |-> "checked", data |-> data]]
                 /\ UNCHANGED <<call, res>>

\* mutant: the conflict check is made again in the transaction of the INSERT
create_appointment_insert_Rechecked(w) ==
    LET data == workers[w].data IN
    /\ workers[w].pc = "checked"
    /\ workers' = [workers EXCEPT ![w] = Idle]
    /\ call' = Call("create_appointment", NoId, data, NoFault)
    /\ UNCHANGED gw
    /\ \E conflict_check \in check_time_slot_conflict(appointments,
             data.doctorName, data.date, data.time, data.duration, NoId, FALSE) :
         IF ~conflict_check.available
         THEN /\ res' = [Failure(conflict_check.message) EXCEPT
                           !.conflict = conflict_check.conflicting_appointment]
              /\ NoMutation
         ELSE /\ next_id <= MaxRows
              /\ clock < MaxClock
              /\ appointments' = appointments \cup {InsertedRow(data, next_id, clock + 1)}
              /\ next_id' = next_id + 1
              /\ clock' = clock + 1
              /\ UNCHANGED deleted
              /\ \E created \in SelectCreated(appointments', data) :
                    res' = Success(MsgCreated, created)

\* create_appointment from the INSERT on
create_appointment_insert(w) ==
    LET data == workers[w].data IN
    /\ workers[w].pc = "checked"
    /\ workers' = [workers EXCEPT ![w] = Idle]
    /\ call' = Call("create_appointment", NoId, data, NoFault)
    /\ UNCHANGED gw
    /\ next_id <= MaxRows
    /\ clock < MaxClock
    /\ appointments' = appointments \cup {InsertedRow(data, next_id, clock + 1)}
    /\ next_id' = next_id + 1
    /\ clock' = clock + 1
    /\ UNCHANGED deleted
    /\ \E created \in SelectCreated(appointments', data) :
          res' = Success(MsgCreated, created)

\* delete_appointment up to the existence check (lines 416-426)
delete_appointment_select(w, appointment_id) ==
    LET result == SelectById(appointments, appointment_id) IN
    /\ workers[w].pc = "idle"
    /\ NoMutation
    /\ UNCHANGED gw
    /\ IF result = {}
       THEN /\ call' = Call("delete_appointment", appointment_id, EmptyDict, NoFault)
            /\ res' = Failure(MsgNotFound)
            /\ UNCHANGED workers
       ELSE /\ \E row \in result :
                 workers' = [workers EXCEPT ![w] =
                     [pc |-> "found",
                      data |-> [appointment_id |-> appointment_id, result |-> row]]]
            /\ UNCHANGED <<call, res>>

\* mutant: the row count of the DELETE is not looked at
delete_appointment_delete_IgnoresCount(w) ==
    LET appointment_id == workers[w].data.appointment_id IN
    /\ workers[w].pc = "found"
    /\ workers' = [workers EXCEPT ![w] = Idle]
    /\ call' = Call("delete_appointment", appointment_id, EmptyDict, NoFault)
    /\ UNCHANGED gw
    /\ res' = Success(MsgDeleted, workers[w].data.result)
    /\ IF SelectById(appointments, appointment_id) # {}
       THEN /\ clock < MaxClock
            /\ appointments' = DeleteById(appointments, appointment_id)
            /\ clock' = clock + 1
            /\ deleted' = deleted \cup {appointment_id}
            /\ UNCHANGED next_id
       ELSE NoMutation

\* delete_appointment from the DELETE on (lines 428-443): the statement
\* removes the row if it is still stored, and its row count decides the result
delete_appointment_delete(w) ==
    LET appointment_id == workers[w].data.appointment_id
        deleted_count == Cardinality(SelectById(appointments, appointment_id))
    IN /\ workers[w].pc = "found"
       /\ workers' = [workers EXCEPT ![w] = Idle]
       /\ call' = Call("delete_appointment", appointment_id, EmptyDict, NoFault)
       /\ UNCHANGED gw
       /\ IF deleted_count > 0
          THEN /\ clock < MaxClock
               /\ appointments' = DeleteById(appointments, appointment_id)
               /\ clock' = clock + 1
               /\ deleted' = deleted \cup {appointment_id}
               /\ UNCHANGED next_id
               /\ res' = Success(MsgDeleted, workers[w].data.result)
          ELSE /\ NoMutation
               /\ res' = Failure(MsgDeleteFailed)

\* the INSERT of create_appointment (execute_mutation, which commits); the
\* re-read is a store call of its own
create_appointment_store(w) ==
    LET data == workers[w].data IN
    /\ workers[w].pc = "checked"
    /\ workers' = [workers EXCEPT ![w] = [pc |-> "inserted", data |-> data]]
    /\ UNCHANGED <<call, res, gw>>
    /\ next_id <= MaxRows
    /\ clock < MaxClock
    /\ appointments' = appointments \cup {InsertedRow(data, next_id, clock + 1)}
    /\ next_id' = next_id + 1
    /\ clock' = clock + 1
    /\ UNCHANGED deleted

\* the re-read by patient, date and time, newest first, and the return
create_appointment_reread(w) ==
    LET data == workers[w].data
        created == SelectCreated(appointments, data)
    IN /\ workers[w].pc = "inserted"
       /\ workers' = [workers EXCEPT ![w] = Idle]
       /\ call' = Call("create_appointment", NoId, data, NoFault)
       /\ UNCHANGED gw
       /\ NoMutation
       /\ IF created = {}
          THEN res' = Failure(MsgCreateFailed)
          ELSE \E row \in created : res' = Success(MsgCreated, row)

\* ---------------------------------------------------------------- gateway
\* DatabaseConnection (db.py).  gw is
\*   conn     self.connection: "none" (never connected), "open", "stale" (the
\*            handle looks open, the server side is gone) or "closed"
\*   in_tx    the connection is inside a transaction (psycopg2 opens one at
\*            the first statement and keeps it until commit or rollback)
\*   tx       the mutation statements executed in that transaction, uncommitted
\*   log      the mutation statements committed to the store, in order
\*   calls    per caller, the execute_query / execute_mutation call it runs:
\*            entry is self.connection as the call finds it, handle is
\*            self.connection when cursor.execute of the first attempt runs
\* A statement is [id, bad]: bad statements raise an application-level
\* psycopg2 error (constraint violation, malformed value) on every execution.
Callers == {"c1", "c2"}
NoStatement == [id |-> "none", bad |-> FALSE]
NoCall ==
    [pc |-> "idle", kind |-> "none", stmt |-> NoStatement, executed |-> 0,
     reconnects |-> 0, first_exc |-> "none", exc |-> "none", rowcount |-> NULL,
     entry |-> "unset", handle |-> "unset"]

\* psycopg2.connect on a reachable store: a fresh connection, no transaction
Connected(g) == [g EXCEPT !.conn = "open", !.in_tx = FALSE, !.tx = <<>>]

\* connection.commit()
Committed(g) == [g EXCEPT !.log = g.log \o g.tx, !.tx = <<>>, !.in_tx = FALSE]

\* connection.rollback() of get_cursor's "except Error"; on a connection that
\* is gone the handle ends closed
RolledBack(g) ==
    [g EXCEPT !.tx = <<>>, !.in_tx = FALSE,
              !.conn = IF g.conn = "stale" THEN "closed" ELSE g.conn]

\* the exception cursor.execute raises for statement stmt on connection g:
\* "conn" (psycopg2 OperationalError / InterfaceError), "app" (any other
\* psycopg2.Error), "other" (an exception that is not a psycopg2.Error,
\* raised once the statement has run), or "none"
ExecuteRaises(g, stmt, interrupt) ==
    IF g.conn # "open" THEN "conn"
    ELSE IF stmt.bad THEN "app"
    ELSE IF interrupt THEN "other"
    ELSE "none"

\* one "with self.get_cursor(commit) as cursor: cursor.execute(...)" block:
\* the gateway it leaves and the exception it raises.  get_cursor rolls back
\* on psycopg2.Error only; execute_mutation commits, execute_query does not.
Attempt(g, kind, stmt, interrupt) ==
    LET raised == ExecuteRaises(g, stmt, interrupt)
        ran == IF raised \in {"none", "other"}
               THEN [g EXCEPT !.in_tx = TRUE,
                              !.tx = IF kind = "mutation" THEN Append(g.tx, stmt) ELSE g.tx]
               ELSE g
    IN IF raised = "none"
       THEN [g |-> IF kind = "mutation" THEN Committed(ran) ELSE ran, raised |-> raised]
       ELSE IF raised = "other"
       THEN [g |-> ran, raised |-> raised]
       ELSE [g |-> RolledBack(ran), raised |-> raised]

\* "except Error": the exceptions of the first attempt that lead to the
\* reconnect and retry
RetryOn(raised) == raised \in {"conn", "app"}

\* a caller enters execute_query or execute_mutation
execute_begin(c, kind, stmt) ==
    /\ gw.calls[c].pc \in {"idle", "returned", "raised"}
    /\ Len(gw.log) + Len(gw.tx) < MaxClock
    /\ gw' = [gw EXCEPT !.calls[c] = [NoCall EXCEPT !.pc = "first", !.kind = kind,
                                                    !.stmt = stmt, !.entry = gw.conn]]
    /\ UNCHANGED <<appointments, next_id, clock, deleted, call, res, workers>>

\* mutant: no ensure_connection; get_cursor connects when there is no
\* connection object, and a closed one is used as it is
execute_first_NoEnsure(c, reachable, interrupt) ==
    LET this == gw.calls[c]
        must_connect == gw.conn = "none"
        ensured == IF must_connect /\ reachable THEN Connected(gw) ELSE gw
        a == Attempt(ensured, this.kind, this.stmt, interrupt)
    IN /\ this.pc = "first"
       /\ UNCHANGED <<appointments, next_id, clock, deleted, call, res, workers>>
       /\ IF must_connect /\ ~reachable
          THEN \* connect() raises psycopg2.Error out of ensure_connection
               gw' = [gw EXCEPT !.calls[c] = [this EXCEPT !.pc = "retry", !.first_exc = "conn"]]
          ELSE gw' = [a.g EXCEPT !.calls[c] =
                        [this EXCEPT
                           !.executed = 1,
                           !.handle = ensured.conn,
                           !.first_exc = a.raised,
                           !.exc = IF a.raised = "none" \/ RetryOn(a.raised)
                                   THEN "none" ELSE a.raised,
                           !.rowcount = IF a.raised = "none" THEN 1 ELSE NULL,
                           !.pc = IF a.raised = "none" THEN "returned"
                                  ELSE IF RetryOn(a.raised) THEN "retry"
                                  ELSE "raised"]]

\* the first try block: ensure_connection, then the statement.  reachable:
\* the store accepts a connection now.
execute_first(c, reachable, interrupt) ==
    LET this == gw.calls[c]
        must_connect == gw.conn \in {"none", "closed"}
        ensured == IF must_connect /\ reachable THEN Connected(gw) ELSE gw
        a == Attempt(ensured, this.kind, this.stmt, interrupt)
    IN /\ this.pc = "first"
       /\ UNCHANGED <<appointments, next_id, clock, deleted, call, res, workers>>
       /\ IF must_connect /\ ~reachable
          THEN \* connect() raises psycopg2.Error out of ensure_connection
               gw' = [gw EXCEPT !.calls[c] = [this EXCEPT !.pc = "retry", !.first_exc = "conn"]]
          ELSE gw' = [a.g EXCEPT !.calls[c] =
                        [this EXCEPT
                           !.executed = 1,
                           !.handle = ensured.conn,
                           !.first_exc = a.raised,
                           !.exc = IF a.raised = "none" \/ RetryOn(a.raised)
                                   THEN "none" ELSE a.raised,
                           !.rowcount = IF a.raised = "none" THEN 1 ELSE NULL,
                           !.pc = IF a.raised = "none" THEN "returned"
                                  ELSE IF RetryOn(a.raised) THEN "retry"
                                  ELSE "raised"]]

\* mutant: a failed retry is retried
execute_retry_Again(c, reachable, interrupt) ==
    LET this == gw.calls[c]
        a == Attempt(Connected(gw), this.kind, this.stmt, interrupt)
    IN /\ this.pc = "retry"
       /\ UNCHANGED <<appointments, next_id, clock, deleted, call, res, workers>>
       /\ IF ~reachable
          THEN gw' = [gw EXCEPT !.calls[c] = [this EXCEPT !.reconnects = 1, !.exc = "conn"]]
          ELSE gw' = [a.g EXCEPT !.calls[c] =
                        [this EXCEPT
                           !.executed = this.executed + 1,
                           !.reconnects = 1,
                           !.exc = a.raised,
                           !.rowcount = IF a.raised = "none" THEN 1 ELSE NULL,
                           !.pc = IF a.raised = "none" THEN "returned" ELSE "retry"]]

\* the except block: connect(), then the statement once more
execute_retry(c, reachable, interrupt) ==
    LET this == gw.calls[c]
        a == Attempt(Connected(gw), this.kind, this.stmt, interrupt)
    IN /\ this.pc = "retry"
       /\ UNCHANGED <<appointments, next_id, clock, deleted, call, res, workers>>
       /\ IF ~reachable
          THEN gw' = [gw EXCEPT !.calls[c] =
                        [this EXCEPT !.pc = "raised", !.reconnects = 1, !.exc = "conn"]]
          ELSE gw' = [a.g EXCEPT !.calls[c] =
                        [this EXCEPT
                           !.executed = this.executed + 1,
                           !.reconnects = 1,
                           !.exc = a.raised,
                           !.rowcount = IF a.raised = "none" THEN 1 ELSE NULL,
                           !.pc = IF a.raised = "none" THEN "returned" ELSE "raised"]]

\* the first try block of execute_mutation up to cursor.execute, for a
\* statement the store accepts: the statement has run in the transaction of
\* the shared connection and line 136 has not committed yet.  Threads that
\* share the gateway take their turns between this step and the next.
execute_statement(c) ==
    LET this == gw.calls[c]
        ensured == IF gw.conn \in {"none", "closed"} THEN Connected(gw) ELSE gw
    IN /\ this.pc = "first"
       /\ this.kind = "mutation"
       /\ ~this.stmt.bad
       /\ ensured.conn = "open"
       /\ gw' = [ensured EXCEPT !.in_tx = TRUE,
                                !.tx = Append(ensured.tx, this.stmt),
                                !.calls[c] = [this EXCEPT !.pc = "executed", !.executed = 1,
                                                          !.handle = ensured.conn]]
       /\ UNCHANGED <<appointments, next_id, clock, deleted, call, res, workers>>

\* self.connection.commit() of line 136 (the commit of get_cursor follows
\* and finds nothing to commit) and return cursor.rowcount; the commit is
\* that of whatever connection self.connection is by now
execute_commit(c) ==
    LET this == gw.calls[c] IN
    /\ this.pc = "executed"
    /\ UNCHANGED <<appointments, next_id, clock, deleted, call, res, workers>>
    /\ IF gw.conn = "open"
       THEN gw' = [Committed(gw) EXCEPT !.calls[c] =
                     [this EXCEPT !.pc = "returned", !.rowcount = 1]]
       ELSE gw' = [RolledBack(gw) EXCEPT !.calls[c] =
                     [this EXCEPT !.pc = "retry", !.first_exc = "conn"]]

\* self.connection.commit() of line 136 when the connection is lost while
\* the commit is under way: the store has committed the transaction, the
\* answer does not arrive and commit() raises psycopg2.OperationalError;
\* get_cursor's rollback finds the connection gone
execute_commit_lost(c) ==
    LET this == gw.calls[c] IN
    /\ this.pc = "executed"
    /\ gw.conn = "open"
    /\ gw' = [Committed(gw) EXCEPT !.conn = "closed",
                                   !.calls[c] = [this EXCEPT !.pc = "retry",
                                                             !.first_exc = "conn"]]
    /\ UNCHANGED <<appointments, next_id, clock, deleted, call, res, workers>>

\* close_db(), that is disconnect(): the connection object, if there is one,
\* is closed and its transaction is gone with it; no call is running
close_db ==
    /\ \A c \in Callers : gw.calls[c].pc \in {"idle", "returned", "raised"}
    /\ gw.conn \in {"open", "stale"}
    /\ gw' = [gw EXCEPT !.conn = "closed", !.in_tx = FALSE, !.tx = <<>>]
    /\ UNCHANGED <<appointments, next_id, clock, deleted, call, res, workers>>

\* the server or the network drops the connection
connection_drops ==
    /\ gw.conn = "open"
    /\ gw' = [gw EXCEPT !.conn = "stale"]
    /\ UNCHANGED <<appointments, next_id, clock, deleted, call, res, workers>>

\* ------------------------------------------------------------------ inputs
Names == {"Alice", "Bob"}
Smith == "Dr. Smith"
Jones == "Dr. Jones"
Dec15 == "2025-12-15"
Dec16 == "2025-12-16"
DoctorDates == {<<Smith, Dec15>>, <<Jones, Dec15>>, <<Smith, Dec16>>}
Times == {<<9, 0>>, <<9, 29>>, <<9, 30>>}
Durations == {15, 30}
CreateDurations == {30}
Ids == 1..MaxRows

\* a request that starts before opening and runs into the 08:00 and 09:00 slots
Early == [time |-> <<7, 59>>, duration |-> 90]

CreateRequests ==
    {[name |-> n, doctorName |-> d[1], date |-> d[2], time |-> t, duration |-> m] :
        n \in Names, d \in DoctorDates, t \in Times, m \in CreateDurations}
    \cup {[name |-> n, doctorName |-> Smith, date |-> Dec15, time |-> t, duration |-> m,
           status |-> "Cancelled"] : n \in Names, t \in Times, m \in CreateDurations}
    \cup {[name |-> n, doctorName |-> Smith, date |-> Dec15, time |-> Early.time,
           duration |-> Early.duration] : n \in Names}

Patches ==
    {[time |-> t] : t \in Times \cup {Early.time}}
    \cup {[duration |-> m] : m \in Durations}
    \cup {[doctorName |-> d] : d \in {Smith, Jones}}
    \cup {[date |-> x] : x \in {Dec15, Dec16}}
    \cup {[status |-> s] : s \in {"Scheduled", "Cancelled"}}
    \cup {Early}

StatusInputs == {"Scheduled", "Cancelled", "Pending"}

Filters ==
    {EmptyDict} \cup {[date |-> x] : x \in {Dec15, Dec16, ""}}
    \cup {[status |-> x] : x \in {"Scheduled", "Cancelled"}}
    \cup {[date |-> x, status |-> y] : x \in {Dec15, Dec16}, y \in {"Scheduled", "Cancelled"}}

\* ----------------------------------------------------------- specification
NoResult == Result(FALSE, MsgNone, None, None, NoId, NULL)

Init ==
    /\ appointments = {}
    /\ next_id = 1
    /\ clock = 0
    /\ deleted = {}
    /\ call = Call("none", NoId, EmptyDict, NoFault)
    /\ res = NoResult
    /\ workers = [w \in Workers |-> Idle]
    /\ gw = [conn |-> "none", in_tx |-> FALSE, tx |-> <<>>, log |-> <<>>,
             calls |-> [c \in Callers |-> NoCall]]

\* ---- the four mutating handlers, called one at a time
Next ==
    \/ \E data \in CreateRequests : create_appointment(data, NoFault)
    \/ \E id \in Ids, data \in Patches : update_appointment(id, data, NoFault)
    \/ \E id \in Ids, s \in StatusInputs : update_appointment_status(id, s, NoFault)
    \/ \E id \in Ids : delete_appointment(id, NoFault)

Spec == Init /\ [][Next]_vars

\* ---- booking and cancelling: two patients, one slot and its neighbours
BookingRequests ==
    {[name |-> n, doctorName |-> d[1], date |-> d[2], time |-> t, duration |-> m] :
        n \in Names, d \in DoctorDates, t \in Times, m \in CreateDurations}
    \cup {[name |-> n, doctorName |-> Smith, date |-> Dec15, time |-> Early.time,
           duration |-> Early.duration] : n \in Names}

NextBooking ==
    \/ \E data \in BookingRequests : create_appointment(data, NoFault)
    \/ \E id \in Ids : update_appointment_status(id, "Cancelled", NoFault)

SpecBooking == Init /\ [][NextBooking]_vars

\* ---- the conflict check called on its own over stored bookings
SlotRequests ==
    {[name |-> "Alice", doctorName |-> d[1], date |-> d[2], time |-> t, duration |-> m] :
        d \in DoctorDates, t \in {<<9, 0>>, <<9, 30>>}, m \in CreateDurations}
\* "9": a time string without a minute field
SlotProbeTimes == Times \cup {<<9>>}

NextSlots ==
    \/ \E data \in SlotRequests : create_appointment(data, NoFault)
    \/ \E id \in Ids : update_appointment_status(id, "Cancelled", NoFault)
    \/ \E d \in {Smith, Jones}, t \in SlotProbeTimes, m \in Durations, ex \in {NoId} \cup Ids :
          check_time_slot_conflict_call(d, Dec15, t, m, ex)

SpecSlots == Init /\ [][NextSlots]_vars

\* ---- times around opening and closing
HourTimes == {<<7, 59>>, <<8, 0>>, <<20, 45>>, <<20, 59>>, <<21, 0>>, <<9>>, <<>>}
HoursRequests ==
    {[name |-> "Alice", doctorName |-> d, date |-> Dec15, time |-> t, duration |-> m] :
        d \in {Smith, Jones}, t \in HourTimes, m \in Durations}
    \cup {[name |-> "Alice", doctorName |-> Smith, date |-> Dec15, time |-> Early.time,
           duration |-> Early.duration]}
HourPatches ==
    {[time |-> t] : t \in {<<7, 59>>, <<8, 0>>, <<20, 59>>, <<21, 0>>}} \cup {Early}

NextHours ==
    \/ \E t \in HourTimes : validate_appointment_time_call(t)
    \/ \E data \in HoursRequests : create_appointment(data, NoFault)
    \/ \E id \in Ids, data \in HourPatches : update_appointment(id, data, NoFault)

SpecHours == Init /\ [][NextHours]_vars

\* ---- rescheduling: one field at a time, and the same values again
UpdateRequests ==
    {[name |-> "Alice", doctorName |-> d, date |-> Dec15, time |-> t, duration |-> m] :
        d \in {Smith, Jones}, t \in {<<9, 0>>, <<9, 30>>}, m \in CreateDurations}
UpdatePatches ==
    {[duration |-> m] : m \in {15, 30, 45}}
    \cup {[time |-> t] : t \in Times}
    \cup {[doctorName |-> d] : d \in {Smith, Jones}}
    \cup {[date |-> x] : x \in {Dec15, Dec16}}
    \cup {[status |-> "Cancelled"]}
    \cup {[doctorName |-> Smith, date |-> Dec15, time |-> <<9, 30>>, duration |-> 30]}

NextUpdate ==
    \/ \E data \in UpdateRequests : create_appointment(data, NoFault)
    \/ \E id \in Ids, data \in UpdatePatches : update_appointment(id, data, NoFault)

SpecUpdate == Init /\ [][NextUpdate]_vars

\* ---- deleting, and calling on the deleted id afterwards
DeleteRequests ==
    {[name |-> n, doctorName |-> Smith, date |-> Dec15, time |-> t, duration |-> m] :
        n \in Names, t \in {<<9, 0>>, <<9, 30>>}, m \in CreateDurations}
DeletePatches == {[duration |-> 15], [time |-> <<9, 30>>], [status |-> "Cancelled"]}

NextDelete ==
    \/ \E data \in DeleteRequests : create_appointment(data, NoFault)
    \/ \E id \in Ids : delete_appointment(id, NoFault)
    \/ \E id \in Ids, data \in DeletePatches : update_appointment(id, data, NoFault)
    \/ \E id \in Ids, s \in StatusInputs : update_appointment_status(id, s, NoFault)

SpecDelete == Init /\ [][NextDelete]_vars

\* ---- optional fields, and times with seconds
FieldTimes == {<<9, 0>>, <<9, 0, 30>>, <<10, 0>>}
FieldOptions ==
    {EmptyDict,
     [status |-> "Confirmed"], [status |-> "Cancelled"],
     [mode |-> "Virtual"],
     [notes |-> "Bring reports"], [notes |-> NULL],
     [status |-> "Cancelled", mode |-> "Virtual", notes |-> "Bring reports"]}
FieldRequests ==
    {[name |-> "Alice", doctorName |-> Smith, date |-> Dec15, time |-> t, duration |-> 30] @@ o :
        t \in FieldTimes, o \in FieldOptions}
RequiredKeys == {"name", "doctorName", "date", "time", "duration"}

NextFields ==
    \/ \E data \in FieldRequests : create_appointment(data, NoFault)
    \/ \E id \in Ids : delete_appointment(id, NoFault)

SpecFields == Init /\ [][NextFields]_vars

\* ---- two request threads creating at the same time
RaceRequests ==
    {[name |-> n, doctorName |-> Smith, date |-> Dec15, time |-> t, duration |-> m] :
        n \in Names, t \in Times, m \in CreateDurations}
    \cup {[name |-> "Alice", doctorName |-> d[1], date |-> d[2], time |-> <<9, 0>>,
           duration |-> m] : d \in DoctorDates, m \in CreateDurations}

NextRace ==
    \/ \E w \in Workers, data \in RaceRequests : create_appointment_check(w, data)
    \/ \E w \in Workers : create_appointment_insert(w)

SpecRace == Init /\ [][NextRace]_vars

\* ---- two request threads creating for the same patient, date and time
\* with different doctors, the re-read a step of its own
RereadRequests ==
    {[name |-> n, doctorName |-> d, date |-> Dec15, time |-> <<9, 0>>, duration |-> 30] :
        n \in Names, d \in {Smith, Jones}}

NextReread ==
    \/ \E w \in Workers, data \in RereadRequests : create_appointment_check(w, data)
    \/ \E w \in Workers : create_appointment_store(w)
    \/ \E w \in Workers : create_appointment_reread(w)

SpecReread == Init /\ [][NextReread]_vars

\* ---- two request threads deleting appointments made by create_appointment
DeleteRaceRequests ==
    {[name |-> n, doctorName |-> Smith, date |-> Dec15, time |-> t, duration |-> 30] :
        n \in Names, t \in {<<9, 0>>, <<10, 0>>}}

NextDeleteRace ==
    \/ \E data \in DeleteRaceRequests : create_appointment(data, NoFault)
    \/ \E w \in Workers, id \in Ids : delete_appointment_select(w, id)
    \/ \E w \in Workers : delete_appointment_delete(w)

SpecDeleteRace == Init /\ [][NextDeleteRace]_vars

\* ---- one caller of the gateway: statements good and bad, a store that may
\* be unreachable, a connection that may drop, exceptions of any class
Statements == {[id |-> i, bad |-> b] : i \in {"s1", "s2"}, b \in BOOLEAN}
Kinds == {"query", "mutation"}
OneCaller == {"c1"}

GatewaySteps ==
    \E c \in OneCaller, reachable \in BOOLEAN, interrupt \in BOOLEAN :
       \/ execute_first(c, reachable, interrupt)
       \/ execute_retry(c, reachable, interrupt)

NextGateway ==
    \/ \E c \in OneCaller, kind \in Kinds, stmt \in Statements : execute_begin(c, kind, stmt)
    \/ GatewaySteps
    \/ connection_drops

SpecGateway == Init /\ [][NextGateway]_vars

\* a call that has begun keeps running: the interpreter does not stop inside
\* execute_query or execute_mutation
SpecGatewayFair == SpecGateway /\ WF_vars(GatewaySteps)

\* ---- one caller of a gateway that close_db may close between calls
NextGatewayClose ==
    \/ NextGateway
    \/ close_db

SpecGatewayClose == Init /\ [][NextGatewayClose]_vars

\* ---- two threads in execute_mutation on the shared gateway, every call
\* with a statement of its own; the store is reachable
RaceStatements == {[id |-> i, bad |-> b] : i \in {"s1", "s2", "s3"}, b \in BOOLEAN}
Fresh(stmt) ==
    /\ \A i \in DOMAIN gw.log : gw.log[i].id # stmt.id
    /\ \A i \in DOMAIN gw.tx : gw.tx[i].id # stmt.id
    /\ \A c \in Callers : gw.calls[c].stmt.id # stmt.id

NextGatewayRace ==
    \/ \E c \in Callers, stmt \in RaceStatements :
          Fresh(stmt) /\ execute_begin(c, "mutation", stmt)
    \/ \E c \in Callers : execute_first(c, TRUE, FALSE)
    \/ \E c \in Callers : execute_retry(c, TRUE, FALSE)
    \/ \E c \in Callers : execute_statement(c)
    \/ \E c \in Callers : execute_commit(c)

SpecGatewayRace == Init /\ [][NextGatewayRace]_vars

\* ---- one caller of execute_mutation, every call with a statement of its
\* own, over a connection that may be lost during the commit
NextGatewayCommit ==
    \/ \E stmt \in RaceStatements : Fresh(stmt) /\ execute_begin("c1", "mutation", stmt)
    \/ \E reachable \in BOOLEAN : execute_first("c1", reachable, FALSE)
    \/ \E reachable \in BOOLEAN : execute_retry("c1", reachable, FALSE)
    \/ execute_statement("c1")
    \/ execute_commit("c1")
    \/ execute_commit_lost("c1")
    \/ connection_drops

SpecGatewayCommit == Init /\ [][NextGatewayCommit]_vars

\* ---- statuses: the four allowed ones, one that is not, and none; Bob books
\* as Cancelled; the UPDATE of the status handler may raise
AnyStatus == valid_statuses \cup {"Pending", NULL}
StatusRequests ==
    {[name |-> "Alice", doctorName |-> Smith, date |-> Dec15, time |-> t, duration |-> 30] :
        t \in {<<9, 0>>, <<9, 30>>}}
    \cup {[name |-> "Bob", doctorName |-> Smith, date |-> Dec15, time |-> <<9, 0>>,
           duration |-> 30, status |-> "Cancelled"]}
    \cup {[name |-> "Alice", doctorName |-> Jones, date |-> Dec15, time |-> <<9, 0>>,
           duration |-> 30, status |-> "Pending"]}
StatusPatches == {[status |-> x] : x \in {"Confirmed", "Pending"}}

NextStatus ==
    \/ \E data \in StatusRequests : create_appointment(data, NoFault)
    \/ \E id \in Ids, x \in AnyStatus, fail \in {NoFault, "update"} :
          update_appointment_status(id, x, fail)
    \/ \E id \in Ids, data \in StatusPatches : update_appointment(id, data, NoFault)

SpecStatus == Init /\ [][NextStatus]_vars

\* ---- the façade over a store of three bookings, two of them at the same
\* date and time; the SELECTs or the UPDATE of the store may raise
FacadeRequests ==
    {[name |-> "Alice", doctorName |-> Smith, date |-> Dec15, time |-> <<9, 0>>, duration |-> 30],
     [name |-> "Alice", doctorName |-> Jones, date |-> Dec15, time |-> <<9, 0>>, duration |-> 30],
     [name |-> "Bob", doctorName |-> Smith, date |-> Dec16, time |-> <<8, 30>>,
      duration |-> 30, status |-> "Cancelled"]}
KnownActions == {"getAppointments", "updateAppointmentStatus", "getAppointmentsByDateRange"}
OtherActions == {"getappointments", "createAppointment", ""}
ListPayloads ==
    {EmptyDict, [filters |-> [date |-> Dec15]], [filters |-> [status |-> "Cancelled"]],
     [filters |-> [date |-> Dec16, status |-> "Scheduled"]]}
StatusPayloads ==
    {[appointmentId |-> id, status |-> x] : id \in Ids, x \in {"Confirmed", "Pending"}}
    \cup {[appointmentId |-> 1]}
RangePayloads ==
    {[startDate |-> Dec15, endDate |-> Dec16], [startDate |-> Dec16, endDate |-> Dec16],
     [startDate |-> Dec16, endDate |-> Dec15], [startDate |-> Dec15]}
OtherPayloads ==
    {EmptyDict, [appointmentId |-> 1, status |-> "Confirmed"],
     [startDate |-> Dec15, endDate |-> Dec16]}
Faults == {NoFault, "select", "update"}

NextFacade ==
    \/ \E data \in FacadeRequests : create_appointment(data, NoFault)
    \/ \E payload \in ListPayloads, fail \in Faults :
          handle_appointment_request("getAppointments", payload, fail)
    \/ \E payload \in StatusPayloads, fail \in Faults :
          handle_appointment_request("updateAppointmentStatus", payload, fail)
    \/ \E payload \in RangePayloads, fail \in Faults :
          handle_appointment_request("getAppointmentsByDateRange", payload, fail)
    \/ \E action \in OtherActions, payload \in OtherPayloads, fail \in Faults :
          handle_appointment_request(action, payload, fail)

SpecFacade == Init /\ [][NextFacade]_vars

\* ---- rescheduling: patches of the schedule fields, one of them starting
\* before opening and running into the 09:00 slot; Bob books as Cancelled
MergeRequests ==
    {[name |-> "Alice", doctorName |-> d, date |-> Dec15, time |-> t, duration |-> 30] :
        d \in {Smith, Jones}, t \in {<<9, 0>>, <<9, 30>>}}
    \cup {[name |-> "Bob", doctorName |-> Smith, date |-> Dec15, time |-> <<9, 0>>,
           duration |-> 30, status |-> "Cancelled"]}
MergePatches ==
    {[time |-> t] : t \in {<<9, 0>>, <<9, 30>>}}
    \cup {[duration |-> m] : m \in {15, 45}}
    \cup {[doctorName |-> d] : d \in {Smith, Jones}}
    \cup {[date |-> Dec16], [name |-> "Bob"], Early,
          [doctorName |-> Smith, date |-> Dec15, time |-> <<9, 30>>, duration |-> 30]}

NextMerge ==
    \/ \E data \in MergeRequests : create_appointment(data, NoFault)
    \/ \E id \in Ids, data \in MergePatches : update_appointment(id, data, NoFault)

SpecMerge == Init /\ [][NextMerge]_vars

\* ---- creating over a store whose conflict query, INSERT or re-read may raise
CreateFaults == {NoFault, "check", "insert", "reread"}
FaultRequests ==
    {[name |-> n, doctorName |-> Smith, date |-> Dec15, time |-> t, duration |-> 30] :
        n \in Names, t \in {<<9, 0>>, <<9, 30>>}}

NextCreateFaults ==
    \/ \E data \in FaultRequests, fail \in CreateFaults : create_appointment(data, fail)
    \/ \E id \in Ids : delete_appointment(id, NoFault)

SpecCreateFaults == Init /\ [][NextCreateFaults]_vars

\* ---- listing: bookings on two dates, the later date at the earlier time,
\* one of them Cancelled; filters present, empty and absent
ListRequests ==
    {[name |-> "Alice", doctorName |-> Smith, date |-> Dec15, time |-> <<9, 30>>, duration |-> 30],
     [name |-> "Alice", doctorName |-> Smith, date |-> Dec16, time |-> <<9, 0>>, duration |-> 30],
     [name |-> "Bob", doctorName |-> Jones, date |-> Dec15, time |-> <<9, 30>>,
      duration |-> 30, status |-> "Cancelled"],
     [name |-> "Bob", doctorName |-> Jones, date |-> Dec15, time |-> <<8, 0>>, duration |-> 30]}
ListFilters ==
    {EmptyDict, [date |-> Dec15], [date |-> ""], [status |-> "Cancelled"],
     [date |-> "", status |-> "Scheduled"], [date |-> Dec15, status |-> "Cancelled"],
     [date |-> Dec16, status |-> "Scheduled"]}

NextList ==
    \/ \E data \in ListRequests : create_appointment(data, NoFault)
    \/ \E filters \in ListFilters, fail \in {NoFault, "select"} : get_appointments(filters, fail)

SpecList == Init /\ [][NextList]_vars

\* ---- patching: every mutable field alone, some together, none at all and
\* a key that is no field; the conflict query may raise
FrameRequests ==
    {[name |-> "Alice", doctorName |-> Smith, date |-> Dec15, time |-> <<9, 0>>,
      duration |-> 30, status |-> "Upcoming", mode |-> "Virtual", notes |-> "Fasting"],
     [name |-> "Alice", doctorName |-> Smith, date |-> Dec15, time |-> <<9, 30>>, duration |-> 30]}
FramePatches ==
    {EmptyDict, [id |-> 2],
     [name |-> "Bob"], [doctorName |-> Jones], [date |-> Dec16], [time |-> <<10, 0>>],
     [duration |-> 45], [status |-> "Confirmed"], [mode |-> "Phone"],
     [notes |-> "Bring reports"],
     [time |-> <<10, 0>>, notes |-> "Bring reports"],
     [name |-> "Bob", status |-> "Cancelled", mode |-> "Phone"]}

NextFrame ==
    \/ \E data \in FrameRequests : create_appointment(data, NoFault)
    \/ \E id \in Ids, data \in FramePatches, fail \in {NoFault, "check"} :
          update_appointment(id, data, fail)
    \/ \E id \in Ids, x \in {"Confirmed", "Cancelled"} :
          update_appointment_status(id, x, NoFault)

SpecFrame == Init /\ [][NextFrame]_vars

\* ---- deleting appointments that were patched since they were booked, over
\* a store whose DELETE may raise
SnapshotRequests ==
    {[name |-> n, doctorName |-> Smith, date |-> Dec15, time |-> t, duration |-> 30] :
        n \in Names, t \in {<<9, 0>>, <<9, 30>>}}
SnapshotPatches == {[duration |-> 15], [notes |-> "Bring reports"], [status |-> "Cancelled"]}

NextSnapshot ==
    \/ \E data \in SnapshotRequests : create_appointment(data, NoFault)
    \/ \E id \in Ids, data \in SnapshotPatches : update_appointment(id, data, NoFault)
    \/ \E id \in Ids, fail \in {NoFault, "delete"} : delete_appointment(id, fail)

SpecSnapshot == Init /\ [][NextSnapshot]_vars

\* ---- creating and rescheduling over a store whose conflict query may raise
FailClosedPatches == {[time |-> <<9, 30>>], [duration |-> 15], [doctorName |-> Jones],
                      [date |-> Dec16], [notes |-> "Bring reports"]}

NextFailClosed ==
    \/ \E data \in FaultRequests, fail \in {NoFault, "check"} : create_appointment(data, fail)
    \/ \E id \in Ids, data \in FailClosedPatches, fail \in {NoFault, "check"} :
          update_appointment(id, data, fail)

SpecFailClosed == Init /\ [][NextFailClosed]_vars

\* ---- the five handlers over well-formed and malformed requests (a time
\* that is no time, missing fields, a status that is not allowed, ids that
\* are not stored) and a store of which any statement may raise
TotalRequests ==
    {[name |-> "Alice", doctorName |-> Smith, date |-> Dec15, time |-> t, duration |-> 30] :
        t \in {<<9, 0>>, <<>>}}
    \cup {[name |-> "Alice", doctorName |-> Smith, date |-> Dec15, duration |-> 30],
          [name |-> "Alice", date |-> Dec15, time |-> <<9, 0>>, duration |-> 30],
          [doctorName |-> Jones, date |-> Dec15, time |-> <<9, 0>>, duration |-> 30]}
TotalPatches == {[time |-> <<9, 30>>], [time |-> <<9>>], [notes |-> "Bring reports"]}
TotalPayloads ==
    {<<"getAppointments", EmptyDict>>,
     <<"getAppointmentsByDateRange", [startDate |-> Dec15, endDate |-> Dec16]>>,
     <<"updateAppointmentStatus", [appointmentId |-> 1, status |-> "Confirmed"]>>,
     <<"updateAppointmentStatus", [appointmentId |-> 1]>>,
     <<"deleteAppointment", [appointmentId |-> 1]>>}

NextTotal ==
    \/ \E data \in TotalRequests, fail \in CreateFaults : create_appointment(data, fail)
    \/ \E id \in Ids, data \in TotalPatches, fail \in {NoFault, "select", "check", "update", "reread"} :
          update_appointment(id, data, fail)
    \/ \E id \in Ids, x \in {"Cancelled", "Pending"}, fail \in {NoFault, "update"} :
          update_appointment_status(id, x, fail)
    \/ \E id \in Ids, fail \in {NoFault, "select", "delete"} : delete_appointment(id, fail)
    \/ \E p \in TotalPayloads, fail \in Faults : handle_appointment_request(p[1], p[2], fail)

SpecTotal == Init /\ [][NextTotal]_vars

\* ---- durations: positive, zero and negative
AnyDurations == {30, 0, -30}
DurationRequests ==
    {[name |-> "Alice", doctorName |-> Smith, date |-> Dec15, time |-> t, duration |-> m] :
        t \in {<<9, 0>>, <<9, 30>>}, m \in AnyDurations}
DurationPatches == {[duration |-> m] : m \in AnyDurations \cup {15}}

NextDuration ==
    \/ \E data \in DurationRequests : create_appointment(data, NoFault)
    \/ \E id \in Ids, data \in DurationPatches : update_appointment(id, data, NoFault)

SpecDuration == Init /\ [][NextDuration]_vars

\* ================================================================ claims
\* the slot [SlotStart, SlotEnd) of a stored row, in minutes of the day
SlotStart(r) == r.time[1] * 60 + r.time[2]
SlotEnd(r) == SlotStart(r) + r.duration
Active(r) == r.status # "Cancelled"
\* the slot of a request
ReqStart(time) == time[1] * 60 + time[2]
\* row r is a non-Cancelled booking of doctor/date whose slot overlaps [s, e)
Clash(r, doctor, date, s, e) ==
    /\ r.doctor_name = doctor
    /\ r.date = date
    /\ Active(r)
    /\ s < SlotEnd(r)
    /\ e > SlotStart(r)
Clashes(rows, doctor, date, time, duration) ==
    {r \in rows : Clash(r, doctor, date, ReqStart(time), ReqStart(time) + duration)}
\* a well-formed time inside / a time outside business hours
InHours(time) == Len(time) >= 2 /\ time[1] >= 8 /\ time[1] < 21
OutOfHours(time) == Len(time) >= 2 /\ (time[1] < 8 \/ time[1] >= 21)
\* who, when: what a conflict failure tells about booking r
ExpectedConflict(r) ==
    [patient |-> r.patient_name,
     time |-> <<r.time[1], r.time[2]>>,
     endTime |-> <<SlotEnd(r) \div 60, SlotEnd(r) % 60>>,
     duration |-> r.duration]

\* C1: after any sequence of handler calls run one at a time from an empty
\* store, no two distinct stored non-Cancelled appointments of one doctor
\* and date have overlapping slots.
C1_NoDoubleBooking ==
    \A a \in appointments, b \in appointments :
        (a.id # b.id /\ a.doctor_name = b.doctor_name /\ a.date = b.date
           /\ Active(a) /\ Active(b))
        => ~(SlotStart(a) < SlotEnd(b) /\ SlotStart(b) < SlotEnd(a))

\* C2 as claimed: a create whose slot overlaps a non-Cancelled booking of the
\* same doctor and date fails, carries that booking's patient, start, end and
\* duration, and changes no stored appointment.
C2_Original ==
    [][call'.op = "create_appointment" =>
         LET data == call'.data
             hit == Clashes(appointments, data.doctorName, data.date, data.time, data.duration)
         IN hit # {}
            => /\ ~res'.success
               /\ res'.conflict \in {Some(ExpectedConflict(r)) : r \in hit}
               /\ appointments' = appointments]_vars

\* C2 amended: the same, for a create whose start time is inside business
\* hours.
C2_ConflictRejected ==
    [][call'.op = "create_appointment" =>
         LET data == call'.data
             hit == Clashes(appointments, data.doctorName, data.date, data.time, data.duration)
         IN (InHours(data.time) /\ hit # {})
            => /\ ~res'.success
               /\ res'.conflict \in {Some(ExpectedConflict(r)) : r \in hit}
               /\ appointments' = appointments]_vars

\* a create by one patient was refused with the details of another patient's
\* stored booking
C2_Witness ==
    /\ call.op = "create_appointment"
    /\ ~res.success
    /\ \E r \in appointments :
          /\ Active(r)
          /\ res.conflict = Some(ExpectedConflict(r))
          /\ r.patient_name # call.data.name

\* C5: a create whose time is outside business hours, and an update that
\* supplies such a time, fail and change no stored appointment; the create
\* fails with the business-hours message and no conflict, also when its slot
\* overlaps a stored booking.
C5_OutOfHoursRejected ==
    [][/\ (call'.op = "create_appointment" /\ OutOfHours(call'.data.time))
            => res' = Failure(MsgHours) /\ appointments' = appointments
       /\ (/\ call'.op = "update_appointment"
           /\ "time" \in DOMAIN call'.data
           /\ OutOfHours(call'.data.time))
            => ~res'.success /\ appointments' = appointments]_vars

\* an out-of-hours create whose slot runs into a stored booking got the
\* business-hours failure
C5_Witness ==
    /\ call.op = "create_appointment"
    /\ call.data.time = Early.time
    /\ call.data.duration = Early.duration
    /\ res = Failure(MsgHours)
    /\ Clashes(appointments, call.data.doctorName, call.data.date,
               call.data.time, call.data.duration) # {}

\* C6: when a Cancelled appointment holds the slot, a create for the same
\* doctor, date, time and duration succeeds provided no non-Cancelled
\* appointment of that doctor and date overlaps the slot.
C6_CancelFreesSlot ==
    [][call'.op = "create_appointment" =>
         LET data == call'.data IN
          (/\ InHours(data.time)
           /\ \E c \in appointments :
                 /\ c.status = "Cancelled"
                 /\ c.doctor_name = data.doctorName
                 /\ c.date = data.date
                 /\ c.time = ToTime(data.time)
                 /\ c.duration = data.duration
           /\ Clashes(appointments, data.doctorName, data.date, data.time, data.duration) = {})
          => /\ res'.success
             /\ \E n \in appointments' \ appointments :
                   /\ res'.data = Some(_format_appointment(n))
                   /\ n.doctor_name = data.doctorName
                   /\ n.date = data.date
                   /\ n.time = ToTime(data.time)
                   /\ n.duration = data.duration]_vars

\* an appointment was set to Cancelled after its creation and a later create
\* took its slot
C6_Witness ==
    /\ call.op = "create_appointment"
    /\ res.success
    /\ \E c \in appointments, n \in appointments :
          /\ c.status = "Cancelled"
          /\ c.updated_at > c.created_at
          /\ n.created_at > c.updated_at
          /\ Active(n)
          /\ res.data = Some(_format_appointment(n))
          /\ <<n.doctor_name, n.date, n.time, n.duration>>
               = <<c.doctor_name, c.date, c.time, c.duration>>

\* C7: an update never conflicts with the appointment it updates: it
\* succeeds whenever the supplied time is inside business hours and the
\* merged slot overlaps no other non-Cancelled appointment of the merged
\* doctor and date.
C7_NoSelfConflict ==
    [][call'.op = "update_appointment" =>
         LET data == call'.data IN
         \A row \in SelectById(appointments, call'.appointment_id) :
             (/\ ("time" \in DOMAIN data => InHours(data.time))
              /\ Clashes(appointments \ {row},
                         Get(data, "doctorName", row.doctor_name),
                         Get(data, "date", row.date),
                         Get(data, "time", <<row.time[1], row.time[2]>>),
                         Get(data, "duration", row.duration)) = {})
             => res'.success]_vars

\* a duration-only update of a non-Cancelled appointment succeeded, its new
\* slot overlapping its old one
C7_Witness ==
    /\ call.op = "update_appointment"
    /\ DOMAIN call.data = {"duration"}
    /\ res.success
    /\ \E r \in appointments : r.id = call.appointment_id /\ Active(r)

\* C8 as claimed: after a successful delete of an id, every update, status
\* update and delete of that id returns not-found and changes nothing, and
\* no list shows the id.
C8_Original ==
    [][\A id \in deleted :
         /\ (call'.appointment_id = id /\ call'.op \in {"update_appointment", "delete_appointment"})
               => res' = Failure(MsgNotFound) /\ NoMutation
         /\ (call'.appointment_id = id /\ call'.op = "update_appointment_status")
               => res'.message = MsgStatusNotFound /\ ~res'.success /\ NoMutation
         /\ \A f \in Filters : id \notin {r.id : r \in get_appointments_rows(appointments', f)}]_vars

\* C8 amended: the status update returns not-found when its status is one of
\* the four allowed ones (any other status gets the invalid-status failure);
\* either way nothing changes.
C8_DeletePermanent ==
    [][\A id \in deleted :
         /\ (call'.appointment_id = id /\ call'.op \in {"update_appointment", "delete_appointment"})
               => res' = Failure(MsgNotFound) /\ NoMutation
         /\ (call'.appointment_id = id /\ call'.op = "update_appointment_status")
               => /\ ~res'.success
                  /\ res'.message =
                        IF call'.data.status \in {"Confirmed", "Scheduled", "Upcoming", "Cancelled"}
                        THEN MsgStatusNotFound ELSE MsgInvalidStatus
                  /\ NoMutation
         /\ \A f \in Filters : id \notin {r.id : r \in get_appointments_rows(appointments', f)}]_vars

\* a deleted id was updated again and not found
C8_Witness ==
    /\ call.appointment_id \in deleted
    /\ call.op = "update_appointment"
    /\ res = Failure(MsgNotFound)

\* C3: check_time_slot_conflict, given a well-formed time, reports a conflict
\* exactly when some non-Cancelled appointment of the same doctor and date
\* (other than the excluded id) has newStart < otherEnd and newEnd >
\* otherStart, and the conflict it reports is such an appointment; a slot
\* starting at 09:30 beside a lone 09:00+30 booking is available, one
\* starting at 09:29 is not.
C3_OverlapExact ==
    (call.op = "check_time_slot_conflict" /\ Len(call.args[3]) >= 2) =>
       LET doctor == call.args[1]
           date == call.args[2]
           newStart == ReqStart(call.args[3])
           newEnd == newStart + call.args[4]
           exclude == call.args[5]
           others == {r \in appointments : exclude = NoId \/ r.id # exclude}
           hits == {r \in others : Clash(r, doctor, date, newStart, newEnd)}
           lone == \E r \in others :
                      /\ Clash(r, doctor, date, 0, 24 * 60)
                      /\ r.time = <<9, 0, 0>>
                      /\ r.duration = 30
                      /\ \A o \in others : Clash(o, doctor, date, 0, 24 * 60) => o = r
       IN /\ res.success <=> hits = {}
          /\ res.conflict # None <=> hits # {}
          /\ hits # {} => res.conflict \in {Some(ExpectedConflict(r)) : r \in hits}
          /\ (lone /\ call.args[3] = <<9, 30>>) => res.success
          /\ (lone /\ call.args[3] = <<9, 29>>) => ~res.success

\* the slot starting at 09:30 was found available beside a 09:00+30 booking
C3_Witness ==
    /\ call.op = "check_time_slot_conflict"
    /\ call.args[3] = <<9, 30>>
    /\ res.success
    /\ \E r \in appointments :
          /\ Clash(r, call.args[1], call.args[2], 0, 24 * 60)
          /\ r.id # call.args[5]
          /\ r.time = <<9, 0, 0>>
          /\ r.duration = 30

\* C4: validate_appointment_time(t) is valid exactly when the hour h of t has
\* 8 <= h < 21 (08:00 and 20:59 valid, 07:59 and 21:00 invalid); create
\* fails on business hours exactly for the other hours, whatever the
\* duration, so a 30-minute booking at 20:45 on a free slot is created.
C4_HoursByStartHour ==
    [][/\ call'.op = "validate_appointment_time" =>
            LET t == call'.args[1] IN
            /\ Len(t) >= 1 => (res'.success <=> (8 <= t[1] /\ t[1] < 21))
            /\ t \in {<<8, 0>>, <<20, 59>>} => res'.success
            /\ t \in {<<7, 59>>, <<21, 0>>} => ~res'.success /\ res'.message = MsgHours
       /\ call'.op = "create_appointment" =>
            LET data == call'.data IN
            /\ Len(data.time) >= 1 =>
                  (res'.message = MsgHours <=> ~(8 <= data.time[1] /\ data.time[1] < 21))
            /\ (/\ data.time = <<20, 45>>
                /\ Clashes(appointments, data.doctorName, data.date,
                           data.time, data.duration) = {})
                  => res'.success]_vars

\* a 30-minute booking at 20:45, ending after 21:00, was created
C4_Witness ==
    /\ call.op = "create_appointment"
    /\ res.success
    /\ \E r \in appointments :
          /\ res.data = Some(_format_appointment(r))
          /\ r.time = <<20, 45, 0>>
          /\ r.duration = 30
          /\ SlotEnd(r) > 21 * 60

\* the fields of a returned or read-back entity e that C9 compares
SameAsRequest(e, data, time, notes) ==
    /\ e.doctorName = data.doctorName
    /\ e.date = data.date
    /\ e.time = time
    /\ e.duration = data.duration
    /\ e.status = Get(data, "status", "Scheduled")
    /\ e.mode = Get(data, "mode", "In-Person")
    /\ e.notes = notes

\* C9 as claimed: the entity a successful create returns, and the row read
\* back under its id, carry the request's doctorName, date, time, duration,
\* status, mode and notes (defaults applied).
C9_Original ==
    (call.op = "create_appointment" /\ res.success) =>
       LET data == call.data
           e == res.data[1]
           back == {_format_appointment(r) : r \in SelectById(appointments, e.id)}
       IN /\ SameAsRequest(e, data, data.time, Get(data, "notes", ""))
          /\ back # {}
          /\ \A b \in back : SameAsRequest(b, data, data.time, Get(data, "notes", ""))

\* C9 amended: the same, with time compared as HH:MM (the seconds of the
\* request are dropped) and null notes read back as "".
C9_RoundTrip ==
    (call.op = "create_appointment" /\ res.success) =>
       LET data == call.data
           e == res.data[1]
           back == {_format_appointment(r) : r \in SelectById(appointments, e.id)}
           hhmm == <<data.time[1], data.time[2]>>
           notes == IF Get(data, "notes", "") = NULL THEN "" ELSE Get(data, "notes", "")
       IN /\ SameAsRequest(e, data, hhmm, notes)
          /\ back # {}
          /\ \A b \in back : SameAsRequest(b, data, hhmm, notes)

\* a create with a time with seconds and supplied optional fields returned
\* the stored row
C9_Witness ==
    /\ call.op = "create_appointment"
    /\ DOMAIN call.data = RequiredKeys \cup {"status", "mode", "notes"}
    /\ res.success
    /\ \E r \in appointments :
          /\ res.data = Some(_format_appointment(r))
          /\ r.time = <<9, 0, 30>>
          /\ r.notes = "Bring reports"

\* C10: the row a create stores has status "Scheduled", mode "In-Person" and
\* notes "" where the request omits the field, and the supplied value where
\* it gives one.
C10_Defaults ==
    [][call'.op = "create_appointment" /\ appointments' # appointments =>
         LET data == call'.data IN
         /\ Cardinality(appointments' \ appointments) = 1
         /\ \A n \in appointments' \ appointments :
               /\ n.status = IF "status" \in DOMAIN data THEN data.status ELSE "Scheduled"
               /\ n.mode = IF "mode" \in DOMAIN data THEN data.mode ELSE "In-Person"
               /\ n.notes = IF "notes" \in DOMAIN data THEN data.notes ELSE ""]_vars

\* a create that gave none of the optional fields stored the defaults
C10_Witness ==
    /\ call.op = "create_appointment"
    /\ DOMAIN call.data = RequiredKeys
    /\ res.success
    /\ \E r \in appointments :
          /\ res.data = Some(_format_appointment(r))
          /\ r.status = "Scheduled"
          /\ r.mode = "In-Person"
          /\ r.notes = ""

\* C11: when two creates for one doctor and date with overlapping slots
\* interleave, each passes the conflict check while the other has not yet
\* inserted, and the INSERT a thread then runs is made whatever the store holds
\* by then: it succeeds and adds a non-Cancelled row for the requested slot.
\* (C11_Witness is the double-booked state this reaches.)
C11_RaceDoubleBooks ==
    [][\A w \in Workers :
         (workers[w].pc = "checked" /\ workers'[w].pc = "idle") =>
            LET data == workers[w].data IN
            /\ res'.success
            /\ \E n \in appointments' \ appointments :
                  /\ res'.data = Some(_format_appointment(n))
                  /\ n.doctor_name = data.doctorName
                  /\ n.date = data.date
                  /\ n.time = ToTime(data.time)
                  /\ n.duration = data.duration
                  /\ Active(n)]_vars

\* both threads have returned success and the store holds two non-Cancelled
\* appointments of one doctor and date with overlapping slots
C11_Witness ==
    /\ \A w \in Workers : workers[w].pc = "idle"
    /\ call.op = "create_appointment"
    /\ res.success
    /\ \E a \in appointments, b \in appointments :
          /\ a.id # b.id
          /\ a.doctor_name = b.doctor_name
          /\ a.date = b.date
          /\ Active(a)
          /\ Active(b)
          /\ SlotStart(a) < SlotEnd(b)
          /\ SlotStart(b) < SlotEnd(a)

\* a call of the gateway that has ended / that is running
Ended(k) == k.pc \in {"returned", "raised"}
Running(k) == k.pc \in {"first", "retry"}

Range(q) == {q[i] : i \in DOMAIN q}

\* C13: an execute_mutation call that has returned has its statement
\* committed; one that has raised, whatever the exception, has left no
\* statement uncommitted in a transaction on the connection.
C13_CommitOrRollback ==
    \A c \in Callers :
       LET k == gw.calls[c] IN
       k.kind = "mutation" =>
          /\ k.pc = "returned" => (k.stmt \in Range(gw.log) /\ gw.tx = <<>>)
          /\ k.pc = "raised" => (gw.tx = <<>> /\ ~gw.in_tx)

\* C20: a statement whose first attempt raised an application-level store
\* error is not executed again.
C20_NoRetryOnApplicationError ==
    \A c \in Callers :
       LET k == gw.calls[c] IN
       k.first_exc = "app" => k.executed <= 1

\* the four statuses an appointment may have
AllowedStatuses == {"Confirmed", "Scheduled", "Upcoming", "Cancelled"}

\* C14: update_appointment_status with a status outside the four allowed
\* ones returns the invalid-status failure with a null status field and
\* changes nothing, and it does so without a store access: also when the
\* UPDATE would raise.
C14_InvalidStatusRejected ==
    [][(/\ call'.op = "update_appointment_status"
        /\ call'.data.status \notin AllowedStatuses)
       => /\ res' = Result(FALSE, MsgInvalidStatus, None, None, call'.appointment_id, NULL)
          /\ res'.status = NULL
          /\ NoMutation]_vars

\* a status that is not allowed was refused for a stored appointment, with a
\* store whose UPDATE raises
C14_Witness ==
    /\ call.op = "update_appointment_status"
    /\ call.data.status = "Pending"
    /\ call.fail = "update"
    /\ res.message = MsgInvalidStatus
    /\ res.status = NULL
    /\ \E r \in appointments : r.id = call.appointment_id

\* C15: with a responsive store, update_appointment_status of a stored
\* appointment to any of the four allowed statuses succeeds whatever the
\* current status, and the stored status is then the requested one.
C15_AnyTransition ==
    [][(/\ call'.op = "update_appointment_status"
        /\ call'.fail = NoFault
        /\ call'.data.status \in AllowedStatuses
        /\ \E r \in appointments : r.id = call'.appointment_id)
       => /\ res'.success
          /\ res'.status = call'.data.status
          /\ \E r \in appointments' :
                r.id = call'.appointment_id /\ r.status = call'.data.status]_vars

\* an appointment booked as Cancelled was moved to Scheduled by the mutation
\* that followed its creation
C15_Witness ==
    /\ call.op = "update_appointment_status"
    /\ res.success
    /\ \E r \in appointments :
          /\ r.id = call.appointment_id
          /\ r.patient_name = "Bob"
          /\ r.updated_at = r.created_at + 1
          /\ r.status = "Scheduled"

\* C16: every stored appointment has one of the four allowed statuses.
C16_StatusAllowed ==
    \A r \in appointments : r.status \in AllowedStatuses

\* C17: every stored appointment has a duration above zero.
C17_DurationPositive ==
    \A r \in appointments : r.duration > 0

\* the members of a list
Members(list) == {list[i] : i \in DOMAIN list}

\* C18: handle_appointment_request runs the one use case its action names:
\* getAppointments lists the appointments the filters select, in the
\* list format, and is touched by a failing SELECT only;
\* getAppointmentsByDateRange lists the appointments of the range, in the
\* range format; updateAppointmentStatus returns the status result for the
\* id and is touched by a failing UPDATE only. Any other action name gets
\* the unknown-action failure whatever the store does, and changes nothing.
C18_Dispatch ==
    [][call'.op = "handle_appointment_request" =>
         LET action == call'.data.action
             payload == call'.data.payload
             fail == call'.fail
         IN
         /\ action \notin {"getAppointments", "updateAppointmentStatus",
                           "getAppointmentsByDateRange"}
               => res' = [success |-> FALSE, message |-> MsgUnknownAction] /\ NoMutation
         /\ action = "getAppointments"
               => /\ NoMutation
                  /\ DOMAIN res' \in {{"success", "message"}, {"success", "message", "data"}}
                  /\ res'.success <=> fail # "select"
                  /\ res'.success =>
                        /\ Len(res'.data) = Cardinality(Members(res'.data))
                        /\ Members(res'.data) =
                              {_format_appointment(r) :
                                 r \in get_appointments_rows(appointments,
                                          Get(payload, "filters", EmptyDict))}
         /\ action = "getAppointmentsByDateRange"
               => /\ NoMutation
                  /\ res'.success <=> fail # "select"
                  /\ res'.success =>
                        /\ Len(res'.data) = Cardinality(Members(res'.data))
                        /\ \A a \in Members(res'.data) : "patientName" \in DOMAIN a
                        /\ {a.id : a \in Members(res'.data)} =
                              {r.id : r \in get_appointments_by_date_range_rows(appointments,
                                          Get(payload, "startDate", NULL),
                                          Get(payload, "endDate", NULL))}
         /\ action = "updateAppointmentStatus"
               => /\ DOMAIN res' = DOMAIN Failure(MsgNone)
                  /\ res'.id = payload.appointmentId
                  /\ res'.success <=>
                        /\ fail # "update"
                        /\ Get(payload, "status", NULL) \in AllowedStatuses
                        /\ \E r \in appointments : r.id = payload.appointmentId
                  /\ res'.success =>
                        \E r \in appointments' :
                           r.id = payload.appointmentId /\ r.status = payload.status
                  /\ ~res'.success => NoMutation]_vars

\* an action that is not known was refused over a store that holds
\* appointments and whose statements raise, with a payload another action
\* would have served
C18_Witness ==
    /\ call.op = "handle_appointment_request"
    /\ call.data.action = "getappointments"
    /\ call.fail = "select"
    /\ call.data.payload # EmptyDict
    /\ appointments # {}
    /\ res = [success |-> FALSE, message |-> MsgUnknownAction]

\* the fields that place an appointment
ScheduleFields == {"time", "date", "doctorName", "duration"}
\* the other non-Cancelled appointments that the slot of row, patched with
\* data, overlaps
MergedClashes(rows, row, data) ==
    Clashes(rows \ {row},
            Get(data, "doctorName", row.doctor_name),
            Get(data, "date", row.date),
            Get(data, "time", <<row.time[1], row.time[2]>>),
            Get(data, "duration", row.duration))

\* C19 as claimed: an update of a stored appointment that supplies a
\* schedule field is refused as booked exactly when the merged slot overlaps
\* another non-Cancelled appointment of the merged doctor and date, and a
\* refused update changes nothing.
C19_Original ==
    [][call'.op = "update_appointment" =>
         LET data == call'.data IN
         \A row \in SelectById(appointments, call'.appointment_id) :
            DOMAIN data \cap ScheduleFields # {}
            => /\ (~res'.success /\ res'.message = MsgBooked)
                     <=> MergedClashes(appointments, row, data) # {}
               /\ ~res'.success => appointments' = appointments]_vars

\* C19 amended: the same for an update whose supplied time, if any, is
\* inside business hours, the refusal naming one of the overlapped
\* appointments; an update that supplies a time outside business hours gets
\* the business-hours failure and no conflict, overlap or not.
C19_MergedConflict ==
    [][call'.op = "update_appointment" =>
         LET data == call'.data IN
         \A row \in SelectById(appointments, call'.appointment_id) :
            /\ (/\ DOMAIN data \cap ScheduleFields # {}
                /\ "time" \in DOMAIN data => InHours(data.time))
               => /\ (~res'.success /\ res'.message = MsgBooked)
                        <=> MergedClashes(appointments, row, data) # {}
                  /\ MergedClashes(appointments, row, data) # {}
                        => res'.conflict \in {Some(ExpectedConflict(r)) :
                                                r \in MergedClashes(appointments, row, data)}
                  /\ ~res'.success => appointments' = appointments
            /\ ("time" \in DOMAIN data /\ OutOfHours(data.time))
               => res' = Failure(MsgHours) /\ appointments' = appointments]_vars

\* a change of doctor alone was refused as booked: the appointment keeps its
\* doctor, and the overlapped appointment is one of the doctor asked for
C19_Witness ==
    /\ call.op = "update_appointment"
    /\ DOMAIN call.data = {"doctorName"}
    /\ ~res.success
    /\ res.message = MsgBooked
    /\ \E row, other \in appointments :
          /\ row.id = call.appointment_id
          /\ row.doctor_name # call.data.doctorName
          /\ other.doctor_name = call.data.doctorName
          /\ Active(other)
          /\ res.conflict = Some(ExpectedConflict(other))

\* C21: when execute_query has returned its rows, the shared connection is
\* not inside a transaction.
C21_ReadLeavesNoTransaction ==
    \A c \in Callers :
       LET k == gw.calls[c] IN
       (k.kind = "query" /\ k.pc = "returned") => ~gw.in_tx

\* C22: a create that returns a failure has added no appointment to the
\* store, and a create that returns success has added the appointment it
\* returns.
C22_CreateAllOrNothing ==
    [][call'.op = "create_appointment" =>
         /\ ~res'.success => appointments' = appointments
         /\ res'.success =>
               \E n \in appointments' \ appointments :
                  res'.data = Some(_format_appointment(n))]_vars

\* C23: with two execute_mutation calls on the shared connection, a call
\* that has returned an affected-row count has its statement committed, and
\* a statement whose call has not committed it yet is not committed.
C23_OwnTransaction ==
    \A c \in Callers :
       LET k == gw.calls[c] IN
       /\ (k.kind = "mutation" /\ k.pc = "returned" /\ k.rowcount = 1)
             => k.stmt \in Range(gw.log)
       /\ k.pc = "executed" => k.stmt \notin Range(gw.log)

\* C24: the connection on which the statement of a first attempt runs is a
\* connection object that is not closed, and it is a fresh connection when
\* the call found the gateway never connected or closed.
C24_LiveHandle ==
    \A c \in Callers :
       LET k == gw.calls[c] IN
       k.handle # "unset"
          => /\ k.handle \in {"open", "stale"}
             /\ k.entry \in {"none", "closed"} => k.handle = "open"

\* a call that found the connection closed has run its statement once, on a
\* connection opened by ensure_connection, and returned without the retry
C24_Witness ==
    \E c \in Callers :
       LET k == gw.calls[c] IN
       /\ k.entry = "closed"
       /\ k.handle = "open"
       /\ k.pc = "returned"
       /\ k.executed = 1
       /\ k.reconnects = 0

\* a filter of the request that is present with a non-empty value
Present(filters, key) == key \in DOMAIN filters /\ filters[key] # ""
\* date then time of a listed appointment come no later than those of another
NoLater(a, b) ==
    \/ DateOrdinal(a.date) < DateOrdinal(b.date)
    \/ /\ a.date = b.date
       /\ a.time[1] * 60 + a.time[2] <= b.time[1] * 60 + b.time[2]

\* C25: get_appointments, the store answering, returns each stored
\* appointment that matches every filter present with a non-empty value,
\* once each and no other (all of them without such a filter), ordered by
\* date and then by time, and changes nothing.
C25_FilteredAndOrdered ==
    [][(call'.op = "get_appointments" /\ call'.fail = NoFault) =>
         LET filters == call'.data
             list == res'.returned
             want == {r \in appointments :
                        /\ Present(filters, "date") => r.date = filters.date
                        /\ Present(filters, "status") => r.status = filters.status}
         IN /\ Len(list) = Cardinality(want)
            /\ Members(list) = {_format_appointment(r) : r \in want}
            /\ \A i, j \in DOMAIN list : i < j => NoLater(list[i], list[j])
            /\ NoMutation]_vars

\* the list without filters holds two appointments, the first of the earlier
\* date and the later time of day
C25_Witness ==
    /\ call.op = "get_appointments"
    /\ call.data = EmptyDict
    /\ call.fail = NoFault
    /\ Len(res.returned) = 2
    /\ res.returned[1].date = "2025-12-15"
    /\ res.returned[1].time = <<9, 30>>
    /\ res.returned[2].date = "2025-12-16"
    /\ res.returned[2].time = <<9, 0>>

\* C26: a getAppointmentsByDateRange request without startDate or without
\* endDate is refused, and not by an error of the store: it is no success
\* and carries no list.
C26_RangeNeedsBothBounds ==
    [][(/\ call'.op = "handle_appointment_request"
        /\ call'.data.action = "getAppointmentsByDateRange"
        /\ {"startDate", "endDate"} \ DOMAIN call'.data.payload # {})
       => /\ ~res'.success
          /\ res'.message # MsgRequestError
          /\ "data" \notin DOMAIN res']_vars

\* the fields a patch may supply, and the column each one sets
MutableFields == {"name", "doctorName", "date", "time", "duration", "status", "mode", "notes"}
ColumnOf(key) ==
    CASE key = "name" -> "patient_name"
      [] key = "doctorName" -> "doctor_name"
      [] OTHER -> key
\* the columns no patch sets
FixedColumns == {"id", "created_at"}

\* C27: a successful update_appointment leaves the targeted appointment
\* with each supplied field at its supplied value, each field not supplied
\* as it was, id and createdAt as they were and updatedAt moved on; a
\* successful update_appointment_status does the same with status as the
\* one supplied field; every other appointment is untouched.
C27_OnlySuppliedFields ==
    [][(call'.op \in {"update_appointment", "update_appointment_status"} /\ res'.success) =>
         LET data == call'.data
             supplied == IF call'.op = "update_appointment"
                         THEN DOMAIN data \cap MutableFields ELSE {"status"}
         IN \E old \in appointments, new \in appointments' :
               /\ old.id = call'.appointment_id
               /\ new.id = old.id
               /\ appointments' \ {new} = appointments \ {old}
               /\ \A col \in FixedColumns : new[col] = old[col]
               /\ new.updated_at > old.updated_at
               /\ \A key \in MutableFields \ supplied : new[ColumnOf(key)] = old[ColumnOf(key)]
               /\ \A key \in supplied \ {"time"} : new[ColumnOf(key)] = data[key]
               /\ "time" \in supplied => <<new.time[1], new.time[2]>> = data.time]_vars

\* a patch of time and notes succeeded on the appointment booked as Upcoming,
\* Virtual: both are as supplied, status and mode as booked
C27_Witness ==
    /\ call.op = "update_appointment"
    /\ DOMAIN call.data = {"time", "notes"}
    /\ res.success
    /\ \E r \in appointments :
          /\ r.id = call.appointment_id
          /\ r.notes = call.data.notes
          /\ r.time = <<10, 0, 0>>
          /\ r.status = "Upcoming"
          /\ r.mode = "Virtual"

C29_DeleteSnapshot ==
    [][call'.op = "delete_appointment" =>
         LET hit == {r \in appointments : r.id = call'.appointment_id} IN
         /\ hit = {} => res' = Failure(MsgNotFound) /\ NoMutation
         /\ res'.success => hit # {}
         /\ \A row \in hit :
               (call'.fail = NoFault \/ res'.success)
               => /\ res'.success
                  /\ res'.message = MsgDeleted
                  /\ res'.data = Some(_format_appointment(row))
                  /\ appointments' = appointments \ {row}
                  /\ \A r \in appointments' : r.id # call'.appointment_id]_vars

\* a delete returned an appointment with the duration an update had given it
C29_Witness ==
    /\ call.op = "delete_appointment"
    /\ res.success
    /\ Len(res.data) = 1
    /\ res.data[1].id = call.appointment_id
    /\ res.data[1].duration = 15
    /\ \A r \in appointments : r.id # call.appointment_id

\* C30: when the requested slot overlaps non-Cancelled appointments of the
\* doctor and date, check_time_slot_conflict reports one that starts no
\* later than any other of them.
C30_EarliestConflict ==
    [][(call'.op = "check_time_slot_conflict" /\ Len(call'.args[3]) >= 2) =>
         LET args == call'.args
             hit == Clashes({r \in appointments : r.id # args[5]},
                            args[1], args[2], args[3], args[4])
         IN hit # {} =>
               \E r \in hit :
                  /\ \A o \in hit : SlotStart(r) <= SlotStart(o)
                  /\ res'.conflict = Some(ExpectedConflict(r))]_vars

\* C31: the store holds the statement of an execute_mutation call at most
\* once (every call brings a statement of its own).
C31_AppliedAtMostOnce ==
    \A i, j \in DOMAIN gw.log : i # j => gw.log[i].id # gw.log[j].id

\* C32: the appointment a successful create returns is the one its call
\* asked for and inserted: the patient, doctor, date and time of the request,
\* whatever other threads create meanwhile.
C32_ReturnsOwnRow ==
    [][\A w \in Workers :
         (workers[w].pc = "inserted" /\ workers'[w].pc = "idle" /\ res'.success) =>
            LET data == workers[w].data
                entity == res'.data[1]
            IN /\ entity.name = data.name
               /\ entity.doctorName = data.doctorName
               /\ entity.date = data.date
               /\ entity.time = data.time]_vars

\* C33: when the query of the conflict check raises, a create in business
\* hours, and an update of a stored appointment that supplies a schedule
\* field (its time, if any, in business hours), return the failure of the
\* check with no conflict and change nothing, whether or not the slot is free.
C33_FailsClosed ==
    [][call'.fail = "check" =>
         /\ (call'.op = "create_appointment" /\ InHours(call'.data.time))
               => res' = Failure(MsgCheckError) /\ NoMutation
         /\ (/\ call'.op = "update_appointment"
             /\ \E r \in appointments : r.id = call'.appointment_id
             /\ DOMAIN call'.data \cap ScheduleFields # {}
             /\ "time" \in DOMAIN call'.data => InHours(call'.data.time))
               => res' = Failure(MsgCheckError) /\ NoMutation]_vars

\* a create for a free slot was refused because the conflict query raised
C33_Witness ==
    /\ call.op = "create_appointment"
    /\ call.fail = "check"
    /\ res = Failure(MsgCheckError)
    /\ Clashes(appointments, call.data.doctorName, call.data.date,
               call.data.time, call.data.duration) = {}

\* the handlers that answer with a result
Handlers == {"create_appointment", "update_appointment", "update_appointment_status",
             "delete_appointment", "handle_appointment_request"}
\* the statements a handler runs on every path to a success
AlwaysRun(c) ==
    CASE c.op = "create_appointment" -> {"check", "insert", "reread"}
      [] c.op = "update_appointment" -> {"select", "update", "reread"}
      [] c.op = "update_appointment_status" -> {"update"}
      [] c.op = "delete_appointment" -> {"select", "delete"}
      [] c.op = "handle_appointment_request" ->
            IF c.data.action = "updateAppointmentStatus" THEN {"update"} ELSE {"select"}

\* C34: each of the five handlers returns a result with a success field and
\* a message, whatever the request and whichever statement of the store
\* raises; a failure has a message that says so; a success is returned only
\* when no statement on its path raised and the store shows the effect.
C34_AlwaysAResult ==
    [][call'.op \in Handlers =>
         /\ {"success", "message"} \subseteq DOMAIN res'
         /\ "raised" \notin DOMAIN res'
         /\ res'.success \in BOOLEAN
         /\ ~res'.success => res'.message # ""
         /\ res'.success =>
               /\ call'.fail \notin AlwaysRun(call')
               /\ call'.op = "create_appointment" =>
                     \E n \in appointments' \ appointments :
                        n.patient_name = call'.data.name
               /\ call'.op \in {"update_appointment", "update_appointment_status"} =>
                     \E r \in appointments' :
                        r.id = call'.appointment_id /\ r.updated_at = clock' /\ clock' > clock
               /\ call'.op = "handle_appointment_request" =>
                     \/ "data" \in DOMAIN res' /\ appointments' = appointments
                     \/ \E r \in appointments' :
                           /\ r.id = call'.data.payload.appointmentId
                           /\ r.status = call'.data.payload.status
                           /\ r.updated_at = clock' /\ clock' > clock
               /\ call'.op = "delete_appointment" =>
                     /\ \E r \in appointments : r.id = call'.appointment_id
                     /\ \A r \in appointments' : r.id # call'.appointment_id]_vars

\* a create without its time field, and an update whose UPDATE raised, got a
\* failure with the handler's error message
C34_Witness ==
    \/ /\ call.op = "create_appointment"
       /\ "time" \notin DOMAIN call.data
       /\ res = Failure(MsgCreateError)
    \/ /\ call.op = "update_appointment"
       /\ call.fail = "update"
       /\ res = Failure(MsgUpdateError)

\* C35: of the delete_appointment calls for one id, interleaved in any way,
\* the only one that succeeds is the one whose DELETE removes the stored row:
\* the id was never deleted before it and stays deleted after it; every other
\* call returns "not found" or "failed to delete" and removes nothing.
C35_OneDeleteWins ==
    [][\A w \in Workers : (workers[w].pc = "found" /\ workers'[w].pc = "idle") =>
          LET id == workers[w].data.appointment_id IN
          /\ call'.appointment_id = id
          /\ IF res'.success
             THEN /\ id \notin deleted
                  /\ \E r \in appointments : r.id = id
                  /\ appointments' = {r \in appointments : r.id # id}
                  /\ deleted' = deleted \cup {id}
             ELSE /\ res' = Failure(MsgDeleteFailed)
                  /\ id \in deleted
                  /\ appointments' = appointments /\ deleted' = deleted
          /\ \A r \in appointments' : r.id \notin deleted']_vars

\* both threads found the row, one deleted it and the other was told that
\* the delete failed
C35_Witness ==
    /\ call.op = "delete_appointment"
    /\ res = Failure(MsgDeleteFailed)
    /\ call.appointment_id \in deleted
    /\ \A r \in appointments : r.id # call.appointment_id
    /\ \A w \in Workers : workers[w].pc = "idle"

====
